---- MODULE Spec2Model ----
(***************************************************************************)
(* A model of the alanrag retrieval engine: the BM25 keyword index, the    *)
(* query enhancer, the diversity reranker, the chunkers and the            *)
(* relationship graph.  Text is a sequence of characters (one-character    *)
(* strings); the byte length of a string is the sum of the UTF-8 widths of *)
(* its characters, its char count is its Len.                              *)
(***************************************************************************)
EXTENDS Integers, Sequences, FiniteSets, TLC

VARIABLES
    \* search/bm25.rs: BM25Search
    term_doc_freq,      \* term -> number of indexed documents containing it
    total_docs,         \* number of index_document calls
    avg_doc_length,     \* running mean of document lengths, a rational <<num, den>>
    documents,          \* the caller's document list: <<doc_id, content>> pairs
    bm25_results,       \* what the last BM25Search::search returned
    \* search/bm25.rs: tokenize as a function of its input
    tok_text, tok_out,
    \* search/query_enhancer.rs: enhance as a function of its input
    enh_query, enh_out,
    \* search/semantic.rs: rerank_with_diversity as a function of its input
    rr_results, rr_factor, rr_out,
    \* chunker/semantic.rs: SemanticChunker
    max_chunk_size, min_chunk_size, overlap_tokens,
    ck_call,            \* the last chunker call: its input and the chunks returned
    \* graph/builder.rs: GraphBuilder
    nodes,              \* node id -> GraphNode
    edges,              \* the edge list, in insertion order
    similarity_threshold,
    gr_chunks,          \* how many chunk ids have been drawn so far
    gr_last,            \* the last batch and the length of the edge list before it
    gr_related,         \* the last find_related_chunks call and what it returned
    \* graph/relationships.rs: RelationshipAnalyzer
    an_nodes, an_edges, \* the snapshot the analyzer was built on
    an_call,             \* the last find_shortest_path call and what it returned
    \* search/bm25.rs: HybridSearch and its last merge_with_rrf call
    semantic_weight, keyword_weight, rrf_call,
    \* storage/chunks.rs: ChunkStore; storage/index.rs: Storage; the last call on either
    db, hash_index, chunk_store, metadata_store, embeddings, store_call,
    \* mcp/server.rs: McpServer: its storage, the two locks, the tasks serving requests and a reader of the graph
    storage, storage_lock, graph_lock, tasks, reader,
    \* mcp/server.rs: search_chunks and search_chapters on the answers of a storage
    sr_stored, sr_call

bm25Vars == <<term_doc_freq, total_docs, avg_doc_length, documents, bm25_results>>
tokVars == <<tok_text, tok_out>>
enhVars == <<enh_query, enh_out>>
rrVars == <<rr_results, rr_factor, rr_out>>
ckVars == <<max_chunk_size, min_chunk_size, overlap_tokens, ck_call>>
grVars == <<nodes, edges, similarity_threshold, gr_chunks, gr_last, gr_related>>
anVars == <<an_nodes, an_edges, an_call>>
rrfVars == <<semantic_weight, keyword_weight, rrf_call>>
storeVars == <<db, hash_index, chunk_store, metadata_store, embeddings, store_call>>
srvVars == <<storage, storage_lock, graph_lock, tasks, reader>>
searchVars == <<sr_stored, sr_call>>
vars == <<bm25Vars, tokVars, enhVars, rrVars, ckVars, grVars, anVars, rrfVars, storeVars, srvVars, searchVars>>

\* Option<T>: None is the empty sequence, Some(x) the one-element sequence
None == <<>>
Some(x) == <<x>>

-----------------------------------------------------------------------------
(* Characters                                                              *)

LowerLetters == <<"a","b","c","d","e","f","g","h","i","j","k","l","m",
                  "n","o","p","q","r","s","t","u","v","w","x","y","z">>
UpperLetters == <<"A","B","C","D","E","F","G","H","I","J","K","L","M",
                  "N","O","P","Q","R","S","T","U","V","W","X","Y","Z">>
Digits == {"0","1","2","3","4","5","6","7","8","9"}
\* A two-byte alphabetic character and its upper case (U+00E9, U+00C9).
WideLower == "é"
WideUpper == "É"

Range(s) == {s[i] : i \in 1..Len(s)}

AlphanumericChars ==
    Range(LowerLetters) \cup Range(UpperLetters) \cup Digits \cup {WideLower, WideUpper}

\* char::is_alphanumeric
IsAlphanumeric(c) == c \in AlphanumericChars

\* char::is_whitespace, on the characters the model uses
IsWhitespace(c) == c \in {" ", "\n", "\t"}

\* char::len_utf8
ByteLen(c) == IF c \in {WideLower, WideUpper} THEN 2 ELSE 1

UpperChars == Range(UpperLetters) \cup {WideUpper}
LowerOfUpper ==
    [c \in UpperChars |->
        IF c = WideUpper THEN WideLower
        ELSE LowerLetters[CHOOSE i \in 1..Len(UpperLetters) : UpperLetters[i] = c]]

\* str::to_lowercase, one character at a time
LowerChar(c) == IF c \in UpperChars THEN LowerOfUpper[c] ELSE c

ToLowercase(text) == [i \in 1..Len(text) |-> LowerChar(text[i])]

\* str::len: the length in bytes
RECURSIVE StrLen(_)
StrLen(text) == IF text = <<>> THEN 0 ELSE ByteLen(Head(text)) + StrLen(Tail(text))

\* str::split_whitespace: the maximal runs of non-whitespace characters
RECURSIVE SplitWs(_, _)
SplitWs(text, cur) ==
    IF text = <<>> THEN (IF cur = <<>> THEN <<>> ELSE <<cur>>)
    ELSE IF IsWhitespace(Head(text))
         THEN (IF cur = <<>> THEN <<>> ELSE <<cur>>) \o SplitWs(Tail(text), <<>>)
         ELSE SplitWs(Tail(text), Append(cur, Head(text)))

SplitWhitespace(text) == SplitWs(text, <<>>)

\* str::trim is empty
TrimIsEmpty(text) == \A i \in 1..Len(text) : IsWhitespace(text[i])

\* str::contains(pattern)
Contains(text, pat) ==
    \E i \in 0..(Len(text) - Len(pat)) : SubSeq(text, i + 1, i + Len(pat)) = pat

\* Vec::contains
Has(seq, x) == \E i \in 1..Len(seq) : seq[i] = x

\* Join words with single spaces
RECURSIVE JoinWords(_)
JoinWords(ws) ==
    IF ws = <<>> THEN <<>>
    ELSE IF Len(ws) = 1 THEN ws[1]
    ELSE ws[1] \o <<" ">> \o JoinWords(Tail(ws))

-----------------------------------------------------------------------------
(* search/bm25.rs: tokenize                                                *)

\* word.chars().filter(|c| c.is_alphanumeric() || *c == '_')
KeepWordChars(word) == SelectSeq(word, LAMBDA c : IsAlphanumeric(c) \/ c = "_")

tokenize(text) ==
    LET words == SplitWhitespace(ToLowercase(text))
        stripped == [i \in 1..Len(words) |-> KeepWordChars(words[i])]
    IN  SelectSeq(stripped, LAMBDA w : w # <<>> /\ StrLen(w) > 2)

-----------------------------------------------------------------------------
(* Arithmetic.  f32 values are modelled as exact rationals <<num, den>>    *)
(* (den > 0) or as fixed-point integers; rounding of f32 is not modelled.  *)

RECURSIVE Gcd(_, _)
Gcd(a, b) == IF b = 0 THEN a ELSE Gcd(b, a % b)
Abs(a) == IF a < 0 THEN -a ELSE a
Norm(q) == LET g == Gcd(Abs(q[1]), q[2]) IN <<q[1] \div g, q[2] \div g>>
RLess(p, q) == p[1] * q[2] < q[1] * p[2]
RAdd(p, q) == Norm(<<p[1] * q[2] + q[1] * p[2], p[2] * q[2]>>)
RMul(p, q) == Norm(<<p[1] * q[1], p[2] * q[2]>>)

\* slice::sort_by with the comparator b.score.partial_cmp(&a.score): a stable
\* sort by score, descending; results of equal score keep their order.
SortByScoreDescending(seq) ==
    LET n == Len(seq)
        rank(i) == 1 + Cardinality({j \in 1..n :
                        \/ seq[j].score > seq[i].score
                        \/ (seq[j].score = seq[i].score /\ j < i)})
    IN  [p \in 1..n |-> seq[CHOOSE i \in 1..n : rank(i) = p]]

\* Iterator::take
Take(seq, n) == SubSeq(seq, 1, IF n < Len(seq) THEN n ELSE Len(seq))

-----------------------------------------------------------------------------
(* search/bm25.rs: BM25Search                                              *)

\* k1 = 1.2 and b = 0.75, in tenths and hundredths
K1x10 == 12
Bx100 == 75

\* Fixed-point scales of the idf and of the tf component
LnScale == 10 ^ 4
TfScale == 10 ^ 3
LnTerms == 4 * 10

\* ln(n / d) * LnScale for n, d > 0, by ln x = 2 atanh((x - 1) / (x + 1)):
\* 2 * (z + z^3/3 + z^5/5 + ...), z = (n - d) / (n + d).  The sign of the
\* result is the sign of n - d, and it is 0 exactly when n = d.
RECURSIVE AtanhSeries(_, _, _, _)
AtanhSeries(zpow, a, b, k) ==
    IF k > LnTerms \/ zpow = 0 THEN 0
    ELSE zpow \div (2 * k + 1) + AtanhSeries((zpow * a * a) \div (b * b), a, b, k + 1)

LnFixed(n, d) ==
    LET a == Abs(n - d)
        b == n + d
        mag == 2 * AtanhSeries((LnScale * a) \div b, a, b, 0)
    IN  IF n = d THEN 0 ELSE IF n > d THEN mag ELSE -mag

\* idf = ln((N - df + 0.5) / (df + 0.5)), times LnScale
Idf(df) == LnFixed(2 * total_docs - 2 * df + 1, 2 * df + 1)

\* Number of occurrences of a term in a token list
TermFreq(doc_terms, term) == Cardinality({i \in 1..Len(doc_terms) : doc_terms[i] = term})

\* tf * (k1 + 1) / (tf + k1 * (1 - b + b * doc_length / avg_doc_length)), times
\* TfScale.  With avg_doc_length = 0.0 the quotient doc_length / avg_doc_length
\* is +inf (doc_length > 0 whenever tf > 0) and the component is 0.
TfComponent(tf, doc_length) ==
    LET an == avg_doc_length[1]
        ad == avg_doc_length[2]
        num == tf * (K1x10 + 10) * 100 * an
        den == tf * 1000 * an + K1x10 * ((100 - Bx100) * an + Bx100 * doc_length * ad)
    IN  IF an = 0 THEN 0 ELSE (num * TfScale) \div den

Df(term) == IF term \in DOMAIN term_doc_freq THEN term_doc_freq[term] ELSE 0

RECURSIVE ScoreTerms(_, _)
ScoreTerms(query_terms, doc_terms) ==
    IF query_terms = <<>> THEN 0
    ELSE LET tf == TermFreq(doc_terms, Head(query_terms))
             rest == ScoreTerms(Tail(query_terms), doc_terms)
         IN  IF tf > 0
             THEN rest + Idf(Df(Head(query_terms))) * TfComponent(tf, Len(doc_terms))
             ELSE rest

\* The score, times LnScale * TfScale
calculate_bm25_score(query_terms, document) == ScoreTerms(query_terms, tokenize(document))

RECURSIVE ScoredDocs(_, _)
ScoredDocs(query_terms, docs) ==
    IF docs = <<>> THEN <<>>
    ELSE LET score == calculate_bm25_score(query_terms, Head(docs)[2])
         IN  (IF score > 0
              THEN <<[chunk_id |-> Head(docs)[1], score |-> score, content |-> Head(docs)[2]]>>
              ELSE <<>>) \o ScoredDocs(query_terms, Tail(docs))

search(query, docs, top_k) ==
    Take(SortByScoreDescending(ScoredDocs(tokenize(query), docs)), top_k)

-----------------------------------------------------------------------------
(* search/query_enhancer.rs: QueryEnhancer                                 *)

\* uvm_synonyms: term -> synonyms, the most relevant first
uvm_synonyms == <<
    << <<"m","o","n","i","t","o","r">>,
       << <<"u","v","m","_","m","o","n","i","t","o","r">>,
          <<"m","o","n","i","t","o","r","i","n","g">>,
          <<"o","b","s","e","r","v","e","r">>,
          <<"w","a","t","c","h","e","r">> >> >>,
    << <<"d","r","i","v","e","r">>,
       << <<"u","v","m","_","d","r","i","v","e","r">>,
          <<"s","t","i","m","u","l","u","s">>,
          <<"g","e","n","e","r","a","t","o","r">> >> >>,
    << <<"a","g","e","n","t">>,
       << <<"u","v","m","_","a","g","e","n","t">>,
          <<"v","e","r","i","f","i","c","a","t","i","o","n","_","c","o","m","p","o","n","e","n","t">>,
          <<"v","c">> >> >>,
    << <<"s","c","o","r","e","b","o","a","r","d">>,
       << <<"u","v","m","_","s","c","o","r","e","b","o","a","r","d">>,
          <<"c","h","e","c","k","e","r">>,
          <<"c","o","m","p","a","r","a","t","o","r">>,
          <<"v","a","l","i","d","a","t","o","r">> >> >>,
    << <<"c","o","n","f","i","g","_","d","b">>,
       << <<"u","v","m","_","c","o","n","f","i","g","_","d","b">>,
          <<"c","o","n","f","i","g","u","r","a","t","i","o","n","_","d","a","t","a","b","a","s","e">>,
          <<"c","o","n","f","i","g">>,
          <<"c","o","n","f","i","g","u","r","a","t","i","o","n">> >> >>,
    << <<"r","e","s","o","u","r","c","e","_","d","b">>,
       << <<"u","v","m","_","r","e","s","o","u","r","c","e","_","d","b">>,
          <<"r","e","s","o","u","r","c","e","_","d","a","t","a","b","a","s","e">> >> >>,
    << <<"p","h","a","s","e">>,
       << <<"u","v","m","_","p","h","a","s","e">>,
          <<"b","u","i","l","d","_","p","h","a","s","e">>,
          <<"c","o","n","n","e","c","t","_","p","h","a","s","e">>,
          <<"r","u","n","_","p","h","a","s","e">>,
          <<"e","x","t","r","a","c","t","_","p","h","a","s","e">>,
          <<"c","h","e","c","k","_","p","h","a","s","e">>,
          <<"r","e","p","o","r","t","_","p","h","a","s","e">> >> >>,
    << <<"t","l","m">>,
       << <<"t","r","a","n","s","a","c","t","i","o","n","_","l","e","v","e","l","_","m","o","d","e","l","i","n","g">>,
          <<"a","n","a","l","y","s","i","s","_","p","o","r","t">>,
          <<"a","n","a","l","y","s","i","s","_","e","x","p","o","r","t">>,
          <<"a","n","a","l","y","s","i","s","_","i","m","p">>,
          <<"t","l","m","_","a","n","a","l","y","s","i","s","_","p","o","r","t">> >> >>,
    << <<"f","a","c","t","o","r","y">>,
       << <<"u","v","m","_","f","a","c","t","o","r","y">>,
          <<"c","o","m","p","o","n","e","n","t","_","u","t","i","l","s">>,
          <<"o","b","j","e","c","t","_","u","t","i","l","s">>,
          <<"t","y","p","e","_","o","v","e","r","r","i","d","e">> >> >>,
    << <<"s","e","q","u","e","n","c","e">>,
       << <<"u","v","m","_","s","e","q","u","e","n","c","e">>,
          <<"u","v","m","_","s","e","q","u","e","n","c","e","_","i","t","e","m">>,
          <<"s","e","q","u","e","n","c","e","r">>,
          <<"u","v","m","_","s","e","q","u","e","n","c","e","r">> >> >>
  >>

\* abbreviations: abbreviation -> expansion
abbreviations == <<
    << <<"c","f","g">>, <<"c","o","n","f","i","g","u","r","a","t","i","o","n">> >>,
    << <<"d","b">>, <<"d","a","t","a","b","a","s","e">> >>,
    << <<"t","l","m">>, <<"t","r","a","n","s","a","c","t","i","o","n","_","l","e","v","e","l","_","m","o","d","e","l","i","n","g">> >>,
    << <<"v","c">>, <<"v","e","r","i","f","i","c","a","t","i","o","n","_","c","o","m","p","o","n","e","n","t">> >>,
    << <<"t","b">>, <<"t","e","s","t","b","e","n","c","h">> >>,
    << <<"e","n","v">>, <<"e","n","v","i","r","o","n","m","e","n","t">> >>
  >>

code_indicators == <<
    <<"i","m","p","l","e","m","e","n","t","a","t","i","o","n">>,
    <<"c","o","d","e">>,
    <<"e","x","a","m","p","l","e">>,
    <<"s","a","m","p","l","e">>,
    <<"s","n","i","p","p","e","t">>,
    <<"f","u","n","c","t","i","o","n">>,
    <<"m","e","t","h","o","d">>,
    <<"c","l","a","s","s">>,
    <<"t","a","s","k">> >>

concept_indicators == <<
    <<"w","h","a","t">>,
    <<"d","e","f","i","n","e">>,
    <<"e","x","p","l","a","i","n">>,
    <<"d","e","s","c","r","i","p","t","i","o","n">>,
    <<"o","v","e","r","v","i","e","w">>,
    <<"p","u","r","p","o","s","e">>,
    <<"m","e","a","n","i","n","g">>,
    <<"c","o","n","c","e","p","t">> >>

StrConfig == <<"c","o","n","f","i","g">>
StrSetup == <<"s","e","t","u","p">>
StrConfiguration == <<"c","o","n","f","i","g","u","r","a","t","i","o","n">>
StrImplementation == <<"i","m","p","l","e","m","e","n","t","a","t","i","o","n">>
StrExample == <<"e","x","a","m","p","l","e">>
StrDefinition == <<"d","e","f","i","n","i","t","i","o","n">>
StrExplanation == <<"e","x","p","l","a","n","a","t","i","o","n">>
StrUvm == <<"u","v","m">>
StrUvmUnderscore == <<"u","v","m","_">>
\* The character U+0060, written out because a TLA+ string cannot hold it
Backtick == "backtick"
StrTickUvmUnderscore == <<Backtick,"u","v","m","_">>
StrPhaseSuffix == <<"_","p","h","a","s","e">>
StrImpSuffix == <<"_","i","m","p">>
StrExportSuffix == <<"_","e","x","p","o","r","t">>
StrPortSuffix == <<"_","p","o","r","t">>
SuffixCodeExample == <<" ","i","m","p","l","e","m","e","n","t","a","t","i","o","n"," ","e","x","a","m","p","l","e"," ","c","o","d","e">>
SuffixConcept == <<" ","d","e","f","i","n","i","t","i","o","n"," ","e","x","p","l","a","n","a","t","i","o","n">>
SuffixConfiguration == <<" ","s","e","t","u","p"," ","c","o","n","f","i","g","u","r","a","t","i","o","n">>
SuffixUvm == <<" ","u","v","m"," ","v","e","r","i","f","i","c","a","t","i","o","n">>
WordWhat == <<"w","h","a","t">>
WordIs == <<"i","s">>
WordDb == <<"d","b">>
WordCfg == <<"c","f","g">>
WordMonitor == <<"m","o","n","i","t","o","r">>
WordShow == <<"s","h","o","w">>
WordConfigDb == <<"c","o","n","f","i","g","_","d","b">>
WordUvmConfigDb == <<"u","v","m","_","c","o","n","f","i","g","_","d","b">>
WordExplain == <<"e","x","p","l","a","i","n">>
WordMe == <<"m","e">>
StrConfigurationDatabase == <<"c","o","n","f","i","g","u","r","a","t","i","o","n","_","d","a","t","a","b","a","s","e">>
StrDatabase == <<"d","a","t","a","b","a","s","e">>

\* The regex class \w
IsWordChar(c) == IsAlphanumeric(c) \/ c = "_"

\* Injective sequences over a finite set: the orders a HashMap may iterate in
Orders(S) ==
    {f \in [1..Cardinality(S) -> S] : \A i, j \in 1..Cardinality(S) : f[i] = f[j] => i = j}

\* Regex::replace_all of \b<word>\b, scanning the haystack from position i
RECURSIVE ReplaceWholeWordFrom(_, _, _, _)
ReplaceWholeWordFrom(text, i, word, replacement) ==
    IF i > Len(text) THEN <<>>
    ELSE IF /\ i + Len(word) - 1 <= Len(text)
            /\ SubSeq(text, i, i + Len(word) - 1) = word
            /\ (i = 1 \/ ~IsWordChar(text[i - 1]))
            /\ (i + Len(word) > Len(text) \/ ~IsWordChar(text[i + Len(word)]))
         THEN replacement \o ReplaceWholeWordFrom(text, i + Len(word), word, replacement)
         ELSE <<text[i]>> \o ReplaceWholeWordFrom(text, i + 1, word, replacement)

ReplaceWholeWord(text, word, replacement) == ReplaceWholeWordFrom(text, 1, word, replacement)

\* The fold of expand_abbreviations over the table entries order[k..]
RECURSIVE ExpandIn(_, _, _)
ExpandIn(text, order, k) ==
    IF k > Len(order) THEN text
    ELSE ExpandIn(ReplaceWholeWord(text, abbreviations[order[k]][1], abbreviations[order[k]][2]),
                  order, k + 1)

\* expand_abbreviations, the table iterated in the given order
expand_abbreviations(query, order) == ExpandIn(query, order, 1)

AnyIndicator(query, indicators) ==
    \E i \in 1..Len(indicators) : Contains(query, indicators[i])

detect_intent(query) ==
    LET has_code_intent == AnyIndicator(query, code_indicators)
        has_concept_intent == AnyIndicator(query, concept_indicators)
        has_config_intent == \/ Contains(query, StrConfig)
                             \/ Contains(query, StrSetup)
                             \/ Contains(query, StrConfiguration)
    IN  IF has_code_intent /\ ~has_concept_intent /\ ~has_config_intent THEN "CodeExample"
        ELSE IF ~has_code_intent /\ has_concept_intent /\ ~has_config_intent THEN "Concept"
        ELSE IF ~has_code_intent /\ ~has_concept_intent /\ has_config_intent THEN "Configuration"
        ELSE "Mixed"

\* The last index of the run of \w characters that starts at i (i - 1 if none)
RECURSIVE WordRunEnd(_, _)
WordRunEnd(text, i) ==
    IF i <= Len(text) /\ IsWordChar(text[i]) THEN WordRunEnd(text, i + 1) ELSE i - 1

\* Where a match of <prefix>\w+ starting at i ends, 0 if there is none
MatchPrefixedAt(text, i, prefix) ==
    IF /\ i + Len(prefix) <= Len(text)
       /\ SubSeq(text, i, i + Len(prefix) - 1) = prefix
       /\ IsWordChar(text[i + Len(prefix)])
    THEN WordRunEnd(text, i + Len(prefix))
    ELSE 0

\* Where the leftmost-greedy match of \w+<suffix> (followed by \b when
\* boundary) starting at i ends, 0 if there is none
MatchSuffixedAt(text, i, suffix, boundary) ==
    LET run_end == WordRunEnd(text, i)
        starts == {p \in (i + 1)..(run_end - Len(suffix) + 1) :
                      /\ SubSeq(text, p, p + Len(suffix) - 1) = suffix
                      /\ (boundary => p + Len(suffix) - 1 = run_end)}
    IN  IF starts = {} THEN 0
        ELSE (CHOOSE p \in starts : \A q \in starts : q <= p) + Len(suffix) - 1

\* The patterns of extract_uvm_terms: <lit>\w+, \w+<lit> and \w+<lit>\b
Prefixed(lit) == [kind |-> "prefixed", lit |-> lit, boundary |-> FALSE]
Suffixed(lit, boundary) == [kind |-> "suffixed", lit |-> lit, boundary |-> boundary]

MatchAt(text, i, pat) ==
    IF pat.kind = "prefixed" THEN MatchPrefixedAt(text, i, pat.lit)
    ELSE MatchSuffixedAt(text, i, pat.lit, pat.boundary)

\* Regex::find_iter: the non-overlapping matches, left to right
RECURSIVE FindIter(_, _, _)
FindIter(text, i, pat) ==
    IF i > Len(text) THEN <<>>
    ELSE LET e == MatchAt(text, i, pat)
         IN  IF e > 0 THEN <<SubSeq(text, i, e)>> \o FindIter(text, e + 1, pat)
             ELSE FindIter(text, i + 1, pat)

uvm_patterns ==
    << Prefixed(StrUvmUnderscore), Prefixed(StrTickUvmUnderscore),
       Suffixed(StrPhaseSuffix, FALSE), Suffixed(StrImpSuffix, TRUE),
       Suffixed(StrExportSuffix, TRUE), Suffixed(StrPortSuffix, TRUE) >>

RECURSIVE UvmTermsFrom(_, _)
UvmTermsFrom(query, k) ==
    IF k > Len(uvm_patterns) THEN <<>>
    ELSE FindIter(query, 1, uvm_patterns[k]) \o UvmTermsFrom(query, k + 1)

extract_uvm_terms(query) == UvmTermsFrom(query, 1)

\* The table entries whose term occurs in the query
SynonymMatches(query) ==
    {k \in 1..Len(uvm_synonyms) : Contains(query, uvm_synonyms[k][1])}

\* add_synonyms, the matching entries met in the given order
RECURSIVE add_synonyms(_, _)
add_synonyms(query, order) ==
    IF order = <<>> THEN query
    ELSE LET synonyms == uvm_synonyms[order[Len(order)]][2]
             before == add_synonyms(query, SubSeq(order, 1, Len(order) - 1))
         IN  IF synonyms # <<>> THEN before \o <<" ">> \o synonyms[1] ELSE before

build_enhanced_query(query, intent, uvm_terms) ==
    LET with_intent ==
            CASE intent = "CodeExample" ->
                    IF ~Contains(query, StrImplementation) /\ ~Contains(query, StrExample)
                    THEN query \o SuffixCodeExample ELSE query
              [] intent = "Concept" ->
                    IF ~Contains(query, StrDefinition) /\ ~Contains(query, StrExplanation)
                    THEN query \o SuffixConcept ELSE query
              [] intent = "Configuration" ->
                    IF ~Contains(query, StrSetup) /\ ~Contains(query, StrConfiguration)
                    THEN query \o SuffixConfiguration ELSE query
              [] OTHER -> query
    IN  IF uvm_terms # <<>> /\ ~Contains(with_intent, StrUvm)
        THEN with_intent \o SuffixUvm
        ELSE with_intent

\* QueryEnhancer::extract_keywords
extract_keywords(query) ==
    LET words == SplitWhitespace(query)
        stripped == [i \in 1..Len(words) |-> KeepWordChars(words[i])]
    IN  SelectSeq(stripped, LAMBDA w : w # <<>> /\ StrLen(w) > 2)

\* QueryEnhancer::enhance, with the orders in which the two tables are iterated
enhance(query, abbr_order, syn_order) ==
    LET normalized == ToLowercase(query)
        expanded == expand_abbreviations(normalized, abbr_order)
        intent == detect_intent(expanded)
        uvm_terms == extract_uvm_terms(expanded)
        with_synonyms == add_synonyms(expanded, syn_order)
        enhanced == build_enhanced_query(with_synonyms, intent, uvm_terms)
    IN  [original |-> query, enhanced |-> enhanced, intent |-> intent,
         keywords |-> extract_keywords(enhanced), uvm_terms |-> uvm_terms]

-----------------------------------------------------------------------------
(* search/semantic.rs: SemanticSearch                                      *)

\* text_similarity: the Jaccard similarity of the whitespace-separated word
\* sets, a rational
text_similarity(text1, text2) ==
    LET words1 == Range(SplitWhitespace(text1))
        words2 == Range(SplitWhitespace(text2))
        intersection == Cardinality(words1 \cap words2)
        union == Cardinality(words1 \cup words2)
    IN  IF union = 0 THEN <<0, 1>> ELSE Norm(<<intersection, union>>)

RECURSIVE SumSimilarity(_, _, _)
SumSimilarity(candidate, reranked, k) ==
    IF k > Len(reranked) THEN <<0, 1>>
    ELSE RAdd(text_similarity(candidate.content, reranked[k].content),
              SumSimilarity(candidate, reranked, k + 1))

\* candidate.score * (1.0 - diversity_factor * avg_diversity_penalty)
FinalScore(candidate, reranked, diversity_factor) ==
    LET diversity_penalty == SumSimilarity(candidate, reranked, 1)
        avg_diversity_penalty ==
            IF reranked = <<>> THEN <<0, 1>>
            ELSE RMul(diversity_penalty, <<1, Len(reranked)>>)
        penalty == RMul(diversity_factor, avg_diversity_penalty)
    IN  RMul(<<candidate.score, 1>>, RAdd(<<1, 1>>, <<-penalty[1], penalty[2]>>))

\* A variant: a later candidate replaces the best on an equal score.
RECURSIVE BestIdxLastOnTies(_, _, _, _, _, _)
BestIdxLastOnTies(remaining, reranked, diversity_factor, i, best_idx, best_score) ==
    IF i > Len(remaining) THEN best_idx
    ELSE LET final_score == FinalScore(remaining[i], reranked, diversity_factor)
         IN  IF ~RLess(final_score, best_score)
             THEN BestIdxLastOnTies(remaining, reranked, diversity_factor, i + 1, i, final_score)
             ELSE BestIdxLastOnTies(remaining, reranked, diversity_factor, i + 1,
                                    best_idx, best_score)

\* The scan of the remaining candidates from position i on: the index of the
\* first candidate whose final score exceeds every earlier one and best_score
RECURSIVE BestIdx(_, _, _, _, _, _)
BestIdx(remaining, reranked, diversity_factor, i, best_idx, best_score) ==
    IF i > Len(remaining) THEN best_idx
    ELSE LET final_score == FinalScore(remaining[i], reranked, diversity_factor)
         IN  IF RLess(best_score, final_score)
             THEN BestIdx(remaining, reranked, diversity_factor, i + 1, i, final_score)
             ELSE BestIdx(remaining, reranked, diversity_factor, i + 1, best_idx, best_score)

\* Vec::remove
Remove(seq, i) == SubSeq(seq, 1, i - 1) \o SubSeq(seq, i + 1, Len(seq))

\* The while loop of rerank_with_diversity
RECURSIVE RerankLoop(_, _, _)
RerankLoop(reranked, remaining, diversity_factor) ==
    IF remaining = <<>> THEN reranked
    ELSE LET best_idx == BestIdx(remaining, reranked, diversity_factor, 1, 1, <<0, 1>>)
         IN  RerankLoop(Append(reranked, remaining[best_idx]),
                        Remove(remaining, best_idx), diversity_factor)

rerank_with_diversity(results, diversity_factor) ==
    IF Len(results) <= 1 THEN results
    ELSE RerankLoop(<<results[1]>>, Tail(results), diversity_factor)

-----------------------------------------------------------------------------
(* The BM25 index driven by a caller: index_document and search            *)

MaxDocs == 3
MaxTopK == 2

DocIds == <<"doc1", "doc2", "doc3", "doc4", "doc5", "doc6">>

TermConfigDb == <<"u","v","m","_","c","o","n","f","i","g","_","d","b">>
WordBuildPhase == <<"b","u","i","l","d","_","p","h","a","s","e">>
WordObjects == <<"o","b","j","e","c","t","s">>
WordStores == <<"s","t","o","r","e","s">>
WordThe == <<"T","h","e">>
WordRuns == <<"r","u","n","s">>
WordGet == <<"g","e","t">>
WordAnd == <<"a","n","d">>
WordSet == <<"s","e","t">>

DocConfigDb == JoinWords(<<TermConfigDb, WordStores, WordObjects>>)
DocConfigDbGet == JoinWords(<<TermConfigDb, WordGet, WordAnd, WordSet>>)
DocBuildPhase == JoinWords(<<WordThe, WordBuildPhase, WordRuns>>)
DocShortWords == <<"a", " ", "b">>

DocPool == {DocConfigDb, DocConfigDbGet, DocBuildPhase, DocShortWords}
CandidatePool == {DocConfigDb, DocBuildPhase}
QueryPool == {TermConfigDb, JoinWords(<<WordBuildPhase, WordObjects>>), <<"a">>}

Bm25Init ==
    /\ term_doc_freq = <<>>
    /\ total_docs = 0
    /\ avg_doc_length = <<0, 1>>
    /\ documents = <<>>
    /\ bm25_results = None

\* BM25Search::index_document, called for the next document of the caller's
\* list; the list returned by an earlier search is gone by then.
IndexDocument(content) ==
    /\ total_docs < MaxDocs
    /\ LET unique_terms == Range(tokenize(content))
           n == total_docs + 1
           doc_length == Len(tokenize(content))
       IN  /\ term_doc_freq' =
                [t \in DOMAIN term_doc_freq \cup unique_terms |->
                    Df(t) + (IF t \in unique_terms THEN 1 ELSE 0)]
           /\ total_docs' = n
           /\ avg_doc_length' =
                Norm(<<avg_doc_length[1] * (n - 1) + doc_length * avg_doc_length[2],
                       avg_doc_length[2] * n>>)
           /\ documents' = Append(documents, <<DocIds[n], content>>)
    /\ bm25_results' = None

\* BM25Search::search over the indexed documents and, possibly, a candidate
\* that was never indexed; the per-candidate scores are recorded beside the
\* returned list.
Search(query, extra, top_k) ==
    /\ LET docs == documents \o extra
       IN  bm25_results' = Some(
             [query |-> query, docs |-> docs, top_k |-> top_k,
              scores |-> [i \in 1..Len(docs) |->
                             calculate_bm25_score(tokenize(query), docs[i][2])],
              results |-> search(query, docs, top_k)])
    /\ UNCHANGED <<term_doc_freq, total_docs, avg_doc_length, documents>>

Bm25Next ==
    \/ \E content \in DocPool : IndexDocument(content)
    \/ \E query \in QueryPool, top_k \in 1..MaxTopK,
          extra \in {<<>>} \cup {<< <<"candidate", d>> >> : d \in CandidatePool} :
            Search(query, extra, top_k)

-----------------------------------------------------------------------------
(* tokenize applied to a text                                              *)

MaxTokLen == 5
TokAlphabet == {"a", "B", "_", ":", " "}
TokTestInput == <<"u","v","m","_","c","o","n","f","i","g","_","d","b",":",":",
                  "g","e","t","(",")"," ","i","s"," ","a"," ","m","e","t","h","o","d">>
TokTexts == UNION {[1..n -> TokAlphabet] : n \in 0..MaxTokLen} \cup {TokTestInput}

TokInit == tok_text \in TokTexts /\ tok_out = None
TokIdle == tok_text = <<>> /\ tok_out = None

Tokenize ==
    /\ tok_out = None
    /\ tok_out' = Some(tokenize(tok_text))
    /\ UNCHANGED tok_text

-----------------------------------------------------------------------------
(* enhance applied to a query                                              *)

MaxQueryWords == 2

WordUvm == <<"u","v","m">>
WordImplementation == <<"I","m","p","l","e","m","e","n","t","a","t","i","o","n">>
QueryWords ==
    {WordWhat, WordIs, WordUvm, StrConfig, WordDb, WordCfg, WordMonitor,
     WordExplain, WordUvmConfigDb, WordBuildPhase, WordImplementation}

\* The query of test_uvm_query_enhancement and that of test_code_intent_detection
QueryWhatIsUvmConfigDb == JoinWords(<<WordWhat, WordIs, WordUvm, StrConfig, WordDb>>)
QueryShowMonitor == JoinWords(<<WordShow, WordMe, WordUvm, WordMonitor, WordImplementation>>)

EnhQueries ==
    {JoinWords(ws) : ws \in UNION {[1..n -> QueryWords] : n \in 0..MaxQueryWords}}
    \cup {QueryWhatIsUvmConfigDb, QueryShowMonitor}

\* The abbreviations that occur as whole words in a text
AbbrMatches(text) ==
    {k \in 1..Len(abbreviations) :
        ReplaceWholeWord(text, abbreviations[k][1], abbreviations[k][2]) # text}

\* The orders in which expand_abbreviations may meet the table: those entries
\* that occur in the query in any order (no expansion holds an abbreviation as
\* a whole word, so the others change nothing wherever they come), then the rest.
AbbrOrders(text) ==
    LET rest == SelectSeq([k \in 1..Len(abbreviations) |-> k],
                          LAMBDA k : k \notin AbbrMatches(text))
    IN  {first \o rest : first \in Orders(AbbrMatches(text))}

EnhInit == enh_query \in EnhQueries /\ enh_out = None
EnhIdle == enh_query = <<>> /\ enh_out = None

Enhance ==
    /\ enh_out = None
    /\ \E abbr_order \in AbbrOrders(ToLowercase(enh_query)) :
         \E syn_order \in Orders(SynonymMatches(
                            expand_abbreviations(ToLowercase(enh_query), abbr_order))) :
            enh_out' = Some(enhance(enh_query, abbr_order, syn_order))
    /\ UNCHANGED enh_query

-----------------------------------------------------------------------------
(* rerank_with_diversity applied to a result list                          *)

MaxResults == 3

ScorePool == {-1, 0, 1, 2}
ContentPool == {<<"a", " ", "b">>, <<"a", " ", "c">>}
FactorPool == {<<0, 1>>, <<1, 2>>, <<1, 1>>}
ResultIds == <<"r1", "r2", "r3", "r4", "r5">>

\* The result lists of n results, the i-th with chunk id ResultIds[i]
ResultLists(n) ==
    {[i \in 1..n |-> [chunk_id |-> ResultIds[i], score |-> f[i][1], content |-> f[i][2]]] :
        f \in [1..n -> ScorePool \X ContentPool]}

RrInit ==
    /\ rr_results \in UNION {ResultLists(n) : n \in 0..MaxResults}
    /\ rr_factor \in FactorPool
    /\ rr_out = None
RrIdle == rr_results = <<>> /\ rr_factor = <<0, 1>> /\ rr_out = None

Rerank ==
    /\ rr_out = None
    /\ rr_out' = Some(rerank_with_diversity(rr_results, rr_factor))
    /\ UNCHANGED <<rr_results, rr_factor>>

-----------------------------------------------------------------------------
(* chunker/semantic.rs: SemanticChunker                                    *)

\* str::trim_start, str::trim
RECURSIVE TrimStart(_)
TrimStart(text) ==
    IF text # <<>> /\ IsWhitespace(Head(text)) THEN TrimStart(Tail(text)) ELSE text

RECURSIVE TrimEnd(_)
TrimEnd(text) ==
    IF text # <<>> /\ IsWhitespace(text[Len(text)])
    THEN TrimEnd(SubSeq(text, 1, Len(text) - 1))
    ELSE text

Trim(text) == TrimEnd(TrimStart(text))

\* str::starts_with
StartsWith(text, prefix) ==
    Len(prefix) <= Len(text) /\ SubSeq(text, 1, Len(prefix)) = prefix

\* usize::saturating_sub
SaturatingSub(a, b) == IF a > b THEN a - b ELSE 0

SentenceEndings == {".", "!", "?"}
BoundaryFollowers == {" ", "\n", "\t"}

\* The while loop of split_sentences from character i on, current_sentence
\* being the sentence under construction and sentences those already pushed.
RECURSIVE SplitSentencesFrom(_, _, _, _)
SplitSentencesFrom(text, i, current_sentence, sentences) ==
    IF i > Len(text)
    THEN IF ~TrimIsEmpty(current_sentence)
         THEN Append(sentences, current_sentence)
         ELSE sentences
    ELSE LET ch == text[i]
             pushed == Append(current_sentence, ch)
         IN  IF ch \in SentenceEndings
             THEN IF i < Len(text)
                  THEN IF text[i + 1] \in BoundaryFollowers
                       THEN IF text[i + 1] = " "
                            THEN SplitSentencesFrom(text, i + 2, <<>>,
                                     Append(sentences, Append(pushed, " ")))
                            ELSE SplitSentencesFrom(text, i + 1, <<>>,
                                     Append(sentences, pushed))
                       ELSE SplitSentencesFrom(text, i + 1, pushed, sentences)
                  ELSE SplitSentencesFrom(text, i + 1, <<>>, Append(sentences, pushed))
             ELSE SplitSentencesFrom(text, i + 1, pushed, sentences)

\* The closing filter of split_sentences, were it to trim what it keeps
SelectNonBlankTrimmed(sentences) ==
    LET kept == SelectSeq(sentences, LAMBDA s : ~TrimIsEmpty(s))
    IN  [i \in 1..Len(kept) |-> Trim(kept[i])]

\* The closing filter of split_sentences
SelectNonBlank(sentences) == SelectSeq(sentences, LAMBDA s : ~TrimIsEmpty(s))

split_sentences(text) == SelectNonBlank(SplitSentencesFrom(text, 1, <<>>, <<>>))

DigitChars == <<"0", "1", "2", "3", "4", "5", "6", "7", "8", "9">>

\* The decimal numeral of a natural number
RECURSIVE Decimal(_)
Decimal(n) ==
    IF n < 10 THEN <<DigitChars[n + 1]>>
    ELSE Append(Decimal(n \div 10), DigitChars[(n % 10) + 1])

\* Uuid::new_v4().to_string(): the n-th identifier drawn, distinct from every
\* other
Uuid(n) == <<"i", "d", "-">> \o Decimal(n)

\* A Chunk as the chunker builds it.  Its id is a fresh v4 UUID (in the
\* chunkers, the one numbered by the chunk's ordinal in the returned list);
\* the embedding is empty until the embedder fills it, and the hash,
\* timestamp, tags and dependencies are read by no operation below.
NewChunk(id, content, chunk_type, source_file, language, start, end, chunk_size) ==
    [id |-> id, content |-> content, chunk_type |-> chunk_type,
     source_file |-> source_file, chapter |-> None, section |-> None,
     language |-> language, line_start |-> start, line_end |-> end,
     chunk_size |-> chunk_size, boundaries |-> <<start, end>>, embedding |-> <<>>]

TextChunk(chunks, current_chunk, source_file, start_pos, current_pos) ==
    NewChunk(Uuid(Len(chunks) + 1), current_chunk, "Text", source_file, None,
             start_pos, current_pos, StrLen(current_chunk))

\* The overlap carried into the next buffer: the last overlap_tokens chars
Overlap(current_chunk) ==
    SubSeq(current_chunk, SaturatingSub(Len(current_chunk), overlap_tokens) + 1,
           Len(current_chunk))

\* The for loop of chunk_text over the sentences from the i-th on, and the
\* final chunk after it.
RECURSIVE ChunkTextFrom(_, _, _, _, _, _, _)
ChunkTextFrom(sentences, i, source_file, current_chunk, start_pos, current_pos, chunks) ==
    IF i > Len(sentences)
    THEN IF current_chunk # <<>> /\ StrLen(current_chunk) >= min_chunk_size
         THEN Append(chunks, TextChunk(chunks, current_chunk, source_file, start_pos, current_pos))
         ELSE chunks
    ELSE LET sentence == sentences[i]
             split == /\ StrLen(current_chunk) + StrLen(sentence) > max_chunk_size
                      /\ current_chunk # <<>>
             emitted == IF split /\ StrLen(current_chunk) >= min_chunk_size
                        THEN Append(chunks, TextChunk(chunks, current_chunk, source_file,
                                                      start_pos, current_pos))
                        ELSE chunks
             carried == IF split THEN Overlap(current_chunk) ELSE current_chunk
             chars_before_overlap == Len(current_chunk) - Len(carried)
             new_start == IF split
                          THEN current_pos - (Len(current_chunk) - chars_before_overlap)
                          ELSE start_pos
         IN  ChunkTextFrom(sentences, i + 1, source_file, carried \o sentence,
                           new_start, current_pos + Len(sentence), emitted)

chunk_text(text, source_file) ==
    ChunkTextFrom(split_sentences(text), 1, source_file, <<>>, 0, 0, <<>>)

\* str::lines: the pieces between line feeds, without a trailing carriage
\* return; a final empty piece is not a line.
RECURSIVE LinesFrom(_, _, _)
LinesFrom(code, i, current_line) ==
    LET StripCr(l) == IF l # <<>> /\ l[Len(l)] = "\r" THEN SubSeq(l, 1, Len(l) - 1) ELSE l
    IN  IF i > Len(code)
        THEN IF current_line = <<>> THEN <<>> ELSE <<StripCr(current_line)>>
        ELSE IF code[i] = "\n"
             THEN <<StripCr(current_line)>> \o LinesFrom(code, i + 1, <<>>)
             ELSE LinesFrom(code, i + 1, Append(current_line, code[i]))

Lines(code) == LinesFrom(code, 1, <<>>)

\* The prefixes that mark a function or class boundary, per language
RustBoundaries ==
    {<<"f", "n", " ">>,
     <<"p", "u", "b", " ", "f", "n", " ">>,
     <<"i", "m", "p", "l", " ">>,
     <<"p", "u", "b", " ", "s", "t", "r", "u", "c", "t", " ">>,
     <<"s", "t", "r", "u", "c", "t", " ">>,
     <<"e", "n", "u", "m", " ">>,
     <<"p", "u", "b", " ", "e", "n", "u", "m", " ">>,
     <<"t", "r", "a", "i", "t", " ">>,
     <<"p", "u", "b", " ", "t", "r", "a", "i", "t", " ">>}
PythonBoundaries ==
    {<<"d", "e", "f", " ">>,
     <<"c", "l", "a", "s", "s", " ">>,
     <<"a", "s", "y", "n", "c", " ", "d", "e", "f", " ">>}
JsBoundaries ==
    {<<"f", "u", "n", "c", "t", "i", "o", "n", " ">>,
     <<"c", "l", "a", "s", "s", " ">>,
     <<"e", "x", "p", "o", "r", "t", " ", "f", "u", "n", "c", "t", "i", "o", "n", " ">>,
     <<"e", "x", "p", "o", "r", "t", " ", "c", "l", "a", "s", "s", " ">>}
JavaBoundaries ==
    {<<"p", "u", "b", "l", "i", "c", " ", "c", "l", "a", "s", "s", " ">>,
     <<"c", "l", "a", "s", "s", " ">>,
     <<"p", "u", "b", "l", "i", "c", " ", "s", "t", "a", "t", "i", "c", " ">>,
     <<"p", "r", "i", "v", "a", "t", "e", " ">>,
     <<"p", "r", "o", "t", "e", "c", "t", "e", "d", " ">>}
GoBoundaries ==
    {<<"f", "u", "n", "c", " ">>,
     <<"t", "y", "p", "e", " ">>,
     <<"s", "t", "r", "u", "c", "t", " ">>}
GenericBoundaries ==
    {<<"f", "n", " ">>,
     <<"d", "e", "f", " ">>,
     <<"f", "u", "n", "c", "t", "i", "o", "n", " ">>,
     <<"c", "l", "a", "s", "s", " ">>}
StrConst == <<"c", "o", "n", "s", "t", " ">>
StrAssign == <<" ", "=", " ">>
StrFn == <<"f", "n", " ">>
StrDef == <<"d", "e", "f", " ">>
StrClass == <<"c", "l", "a", "s", "s", " ">>

AnyPrefix(trimmed, prefixes) == \E p \in prefixes : StartsWith(trimmed, p)

is_function_start(language, trimmed) ==
    CASE language = "rust" -> AnyPrefix(trimmed, RustBoundaries)
      [] language = "python" -> AnyPrefix(trimmed, PythonBoundaries)
      [] language \in {"javascript", "typescript"} ->
            \/ AnyPrefix(trimmed, JsBoundaries)
            \/ (StartsWith(trimmed, StrConst) /\ Contains(trimmed, StrAssign))
      [] language = "java" -> AnyPrefix(trimmed, JavaBoundaries)
      [] language = "go" -> AnyPrefix(trimmed, GoBoundaries)
      [] OTHER -> AnyPrefix(trimmed, GenericBoundaries)

\* i32::saturating_sub(1): the counter saturates at i32::MIN, not at 0
MinI32 == -2147483647 - 1
I32SaturatingDecrement(d) == IF d > MinI32 THEN d - 1 ELSE MinI32

\* brace_depth after the characters of a line from the i-th on
RECURSIVE BraceDepthAfter(_, _, _)
BraceDepthAfter(line, i, brace_depth) ==
    IF i > Len(line) THEN brace_depth
    ELSE BraceDepthAfter(line, i + 1,
            IF line[i] \in {"{", "(", "["} THEN brace_depth + 1
            ELSE IF line[i] \in {"}", ")", "]"} THEN I32SaturatingDecrement(brace_depth)
            ELSE brace_depth)

\* str::find: the byte offset of the first match of a pattern, or None
RECURSIVE FindFrom(_, _, _)
FindFrom(text, i, pats) ==
    IF i > Len(text) THEN None
    ELSE IF \E p \in pats : StartsWith(SubSeq(text, i, Len(text)), p)
         THEN Some(StrLen(SubSeq(text, 1, i - 1)))
         ELSE FindFrom(text, i + 1, pats)

Find(text, pats) == FindFrom(text, 1, pats)

\* safe_substring(s, start_chars, end_chars), end_chars = None for "to the end"
safe_substring(s, start_chars, end_chars) ==
    LET bound == IF end_chars = None THEN Len(s) ELSE end_chars[1]
        end == IF bound < Len(s) THEN bound ELSE Len(s)
    IN  IF start_chars >= Len(s) \/ start_chars >= end THEN None
        ELSE Some(SubSeq(s, start_chars + 1, end))

\* One keyword of extract_function_name on one trimmed line: the text between
\* the keyword and the first delimiter, or None
NameAfter(trimmed, keyword, delimiters) ==
    LET pos == Find(trimmed, {keyword})
        name_part == IF pos = None THEN None
                     ELSE safe_substring(trimmed, pos[1] + Len(keyword), None)
        end == IF name_part = None THEN None
               ELSE Find(name_part[1], {<<c>> : c \in delimiters})
        name == IF end = None THEN None ELSE safe_substring(name_part[1], 0, end)
    IN  IF name = None THEN None ELSE Some(Trim(name[1]))

RECURSIVE FunctionNameFrom(_, _)
FunctionNameFrom(lines, i) ==
    IF i > Len(lines) THEN None
    ELSE LET trimmed == Trim(lines[i])
             rust == NameAfter(trimmed, StrFn, {"(", "<"})
             python == NameAfter(trimmed, StrDef, {"("})
             class == NameAfter(trimmed, StrClass, {" ", "{", "(", ":", "<"})
         IN  IF rust # None THEN rust
             ELSE IF python # None THEN python
             ELSE IF class # None THEN class
             ELSE FunctionNameFrom(lines, i + 1)

extract_function_name(code) == FunctionNameFrom(Lines(code), 1)

CodeChunk(chunks, current_chunk, language, source_file, start_line, end_line) ==
    [NewChunk(Uuid(Len(chunks) + 1), Trim(current_chunk), "Code", source_file, Some(language),
              start_line, end_line, StrLen(current_chunk))
        EXCEPT !.section = extract_function_name(current_chunk)]

\* The for loop of chunk_code over the lines from index i (0-based) on, and
\* the final chunk after it.
RECURSIVE ChunkCodeFrom(_, _, _, _, _, _, _, _, _)
ChunkCodeFrom(lines, i, language, source_file, current_chunk, start_line, brace_depth, in_function, chunks) ==
    IF i >= Len(lines)
    THEN IF ~TrimIsEmpty(current_chunk) /\ StrLen(current_chunk) >= min_chunk_size
         THEN Append(chunks, CodeChunk(chunks, current_chunk, language, source_file,
                                       start_line, Len(lines)))
         ELSE chunks
    ELSE LET line == lines[i + 1]
             trimmed == TrimStart(line)
             depth == BraceDepthAfter(line, 1, brace_depth)
             function_start == is_function_start(language, trimmed)
             should_split ==
                 /\ function_start
                 /\ current_chunk # <<>>
                 /\ (depth = 0 \/ (language = "python" /\ ~in_function))
             \* the boundary split
             chunks1 == IF should_split /\ StrLen(current_chunk) >= min_chunk_size
                        THEN Append(chunks, CodeChunk(chunks, current_chunk, language,
                                                      source_file, start_line, i))
                        ELSE chunks
             start1 == IF should_split THEN i ELSE start_line
             in1 == IF function_start THEN TRUE ELSE in_function
             buffer == (IF should_split THEN <<>> ELSE current_chunk) \o line \o <<"\n">>
             \* the size split
             too_large == StrLen(buffer) > max_chunk_size /\ depth = 0
             chunks2 == IF too_large /\ StrLen(buffer) >= min_chunk_size
                        THEN Append(chunks1, CodeChunk(chunks1, buffer, language,
                                                       source_file, start1, i + 1))
                        ELSE chunks1
         IN  ChunkCodeFrom(lines, i + 1, language, source_file,
                           IF too_large THEN <<>> ELSE buffer,
                           IF too_large THEN i + 1 ELSE start1,
                           depth,
                           IF too_large THEN FALSE ELSE in1,
                           chunks2)

chunk_code(code, language, source_file) ==
    ChunkCodeFrom(Lines(code), 0, language, source_file, <<>>, 0, 0, FALSE, <<>>)

-----------------------------------------------------------------------------
(* chunker/markdown.rs: MarkdownProcessor                                  *)

\* The events of the markdown parser that extract_and_chunk distinguishes;
\* every other event is OtherEvent.
HeadingStart(level) == [event |-> "Start(Heading)", level |-> level]
HeadingEnd == [event |-> "End(Heading)"]
TextEvent(text) == [event |-> "Text", text |-> text]
CodeEvent(text) == [event |-> "Code", text |-> text]
SoftBreak == [event |-> "SoftBreak"]
HardBreak == [event |-> "HardBreak"]
OtherEvent == [event |-> "Other"]

HeaderInfo(text, level) == [text |-> text, level |-> level]

\* A retain that keeps the headers of the same level as well
RetainSameLevel(header_stack, heading_level) ==
    SelectSeq(header_stack, LAMBDA h : h.level <= heading_level)

\* Vec::retain(|h| h.level < heading_level)
Retain(header_stack, heading_level) ==
    SelectSeq(header_stack, LAMBDA h : h.level < heading_level)

\* The event loop of extract_and_chunk from the i-th event on, and the final
\* section after it: the list of (header stack, section text) pairs.
RECURSIVE SectionsFrom(_, _, _, _, _, _, _, _)
SectionsFrom(events, i, sections, current_section, header_stack, in_heading, heading_text, heading_level) ==
    IF i > Len(events)
    THEN IF current_section # <<>>
         THEN Append(sections, <<header_stack, current_section>>)
         ELSE sections
    ELSE LET e == events[i]
         IN  CASE e.event = "Start(Heading)" ->
                    SectionsFrom(events, i + 1,
                        IF current_section # <<>>
                        THEN Append(sections, <<header_stack, current_section>>)
                        ELSE sections,
                        <<>>, header_stack, TRUE, <<>>, e.level)
               [] e.event = "End(Heading)" ->
                    SectionsFrom(events, i + 1, sections, current_section,
                        Append(Retain(header_stack, heading_level),
                               HeaderInfo(heading_text, heading_level)),
                        FALSE, heading_text, heading_level)
               [] e.event \in {"Text", "Code"} ->
                    IF in_heading
                    THEN SectionsFrom(events, i + 1, sections, current_section,
                             header_stack, in_heading, heading_text \o e.text, heading_level)
                    ELSE SectionsFrom(events, i + 1, sections, current_section \o e.text,
                             header_stack, in_heading, heading_text, heading_level)
               [] e.event \in {"SoftBreak", "HardBreak"} ->
                    SectionsFrom(events, i + 1, sections,
                        IF in_heading THEN current_section
                        ELSE Append(current_section, "\n"),
                        header_stack, in_heading, heading_text, heading_level)
               [] OTHER ->
                    SectionsFrom(events, i + 1, sections, current_section,
                        header_stack, in_heading, heading_text, heading_level)

StrChapter == <<"c", "h", "a", "p", "t", "e", "r">>
StrChapterSpace == <<"c", "h", "a", "p", "t", "e", "r", " ">>
StrInf == <<"i", "n", "f">>
StrInfinity == <<"i", "n", "f", "i", "n", "i", "t", "y">>
StrNan == <<"n", "a", "n">>

AllDigits(s) == \A i \in 1..Len(s) : s[i] \in Digits

\* The index of the first occurrence of a character of cs in s, 0 if none
FirstIndexOf(s, cs) ==
    IF \E i \in 1..Len(s) : s[i] \in cs
    THEN CHOOSE i \in 1..Len(s) : s[i] \in cs /\ \A j \in 1..(i - 1) : s[j] \notin cs
    ELSE 0

\* str::parse::<f64>().is_ok(): an optional sign, then inf, infinity, nan (in
\* any case) or digits with at most one point and an optional exponent
ParsesAsF64(word) ==
    LET body == IF word # <<>> /\ word[1] \in {"+", "-"} THEN Tail(word) ELSE word
        e == FirstIndexOf(body, {"e", "E"})
        mantissa == IF e = 0 THEN body ELSE SubSeq(body, 1, e - 1)
        exponent == IF e = 0 THEN <<>> ELSE SubSeq(body, e + 1, Len(body))
        exp_digits == IF exponent # <<>> /\ exponent[1] \in {"+", "-"}
                      THEN Tail(exponent) ELSE exponent
        point == FirstIndexOf(mantissa, {"."})
        whole == IF point = 0 THEN mantissa ELSE SubSeq(mantissa, 1, point - 1)
        fraction == IF point = 0 THEN <<>> ELSE SubSeq(mantissa, point + 1, Len(mantissa))
    IN  \/ ToLowercase(body) \in {StrInf, StrInfinity, StrNan}
        \/ /\ AllDigits(whole) /\ AllDigits(fraction)
           /\ Len(whole) + Len(fraction) > 0
           /\ (e # 0 => (exp_digits # <<>> /\ AllDigits(exp_digits)))

is_numbered_section(text) ==
    LET words == SplitWhitespace(Trim(text))
    IN  /\ words # <<>>
        /\ \/ (Has(words[1], ".") /\ \E i \in 1..Len(words[1]) : words[1][i] \in Digits)
           \/ ParsesAsF64(words[1])

\* The test of extract_chapter_and_section for "this header looks like a chapter"
LooksLikeChapter(header) ==
    \/ /\ header.level <= 2
       /\ \/ Contains(ToLowercase(header.text), StrChapter)
          \/ StartsWith(ToLowercase(header.text), StrChapterSpace)
          \/ is_numbered_section(header.text)
    \/ header.level = 1

\* A variant that always takes the top-most header as the chapter
ChapterFromTopHeader(headers) ==
    IF headers = <<>> THEN <<None, None>>
    ELSE <<Some(headers[1].text), Some(headers[Len(headers)].text)>>

\* <<chapter, section>> for a header stack
extract_chapter_and_section(headers) ==
    IF headers = <<>> THEN <<None, None>>
    ELSE LET chapterLike == {i \in 1..Len(headers) : LooksLikeChapter(headers[i])}
             last == CHOOSE i \in chapterLike : \A j \in chapterLike : j <= i
         IN  <<IF chapterLike = {} THEN Some(headers[1].text) ELSE Some(headers[last].text),
               Some(headers[Len(headers)].text)>>

\* The loop of extract_and_chunk over the sections from the i-th on: each
\* section is chunked on its own and its chunks are tagged with its headers.
RECURSIVE MarkdownChunksFrom(_, _, _, _)
MarkdownChunksFrom(sections, i, file_path, all_chunks) ==
    IF i > Len(sections) THEN all_chunks
    ELSE LET chunks == chunk_text(sections[i][2], file_path)
             tags == extract_chapter_and_section(sections[i][1])
             tagged == [k \in 1..Len(chunks) |->
                          [chunks[k] EXCEPT !.id = Uuid(Len(all_chunks) + k),
                                            !.chunk_type = "Markdown",
                                            !.chapter = tags[1],
                                            !.section = tags[2]]]
         IN  MarkdownChunksFrom(sections, i + 1, file_path, all_chunks \o tagged)

\* MarkdownProcessor::extract_and_chunk on the parser's event stream
extract_and_chunk(events, file_path) ==
    MarkdownChunksFrom(SectionsFrom(events, 1, <<>>, <<>>, <<>>, FALSE, <<>>, 1),
                       1, file_path, <<>>)

-----------------------------------------------------------------------------
(* graph/builder.rs: GraphBuilder                                          *)

GraphNode(id, node_type, content, metadata) ==
    [id |-> id, node_type |-> node_type, content |-> content, metadata |-> metadata]

GraphEdge(from, to, edge_type, weight) ==
    [from |-> from, to |-> to, edge_type |-> edge_type, weight |-> weight]

\* HashMap::insert and HashMap::contains_key on the node map
Insert(map, key, value) ==
    [k \in DOMAIN map \cup {key} |-> IF k = key THEN value ELSE map[k]]
ContainsKey(map, key) == key \in DOMAIN map

\* The node add_chunk_node inserts for a chunk
ChunkNode(chunk) ==
    GraphNode(chunk.id, "Chunk", chunk.content,
              [source_file |-> chunk.source_file, chunk_type |-> chunk.chunk_type,
               chapter |-> chunk.chapter, section |-> chunk.section])

\* The first loop of build_relationships: add_chunk_node for every chunk
RECURSIVE AddChunkNodes(_, _, _)
AddChunkNodes(map, chunks, i) ==
    IF i > Len(chunks) THEN map
    ELSE AddChunkNodes(Insert(map, chunks[i].id, ChunkNode(chunks[i])), chunks, i + 1)

\* f32::sqrt, on the perfect squares the embeddings below produce
Sqrt(n) == CHOOSE r \in 0..n : r * r = n

RECURSIVE DotProduct(_, _)
DotProduct(a, b) ==
    IF a = <<>> THEN 0 ELSE Head(a) * Head(b) + DotProduct(Tail(a), Tail(b))

\* cosine_similarity, a rational <<num, den>>
cosine_similarity(a, b) ==
    IF Len(a) # Len(b) THEN <<0, 1>>
    ELSE LET norm_a == Sqrt(DotProduct(a, a))
             norm_b == Sqrt(DotProduct(b, b))
         IN  IF norm_a = 0 \/ norm_b = 0 THEN <<0, 1>>
             ELSE Norm(<<DotProduct(a, b), norm_a * norm_b>>)

jaccard_similarity(text1, text2) ==
    LET words1 == Range(SplitWhitespace(text1))
        words2 == Range(SplitWhitespace(text2))
        intersection == Cardinality(words1 \cap words2)
        union == Cardinality(words1 \cup words2)
    IN  IF union = 0 THEN <<0, 1>> ELSE Norm(<<intersection, union>>)

calculate_similarity(chunk1, chunk2) ==
    IF chunk1.embedding # <<>> /\ chunk2.embedding # <<>>
    THEN cosine_similarity(chunk1.embedding, chunk2.embedding)
    ELSE jaccard_similarity(chunk1.content, chunk2.content)

\* build_similarity_edges: the pairs i < j in the order of the two loops,
\* counted by their position p in that order
SimilarityPairs(n) ==
    LET pairs == {<<i, j>> \in (1..n) \X (1..n) : i < j}
        before(p, q) == p[1] < q[1] \/ (p[1] = q[1] /\ p[2] < q[2])
    IN  [k \in 1..Cardinality(pairs) |->
            CHOOSE p \in pairs : Cardinality({q \in pairs : before(q, p)}) = k - 1]

RECURSIVE SimilarityEdgesFrom(_, _, _, _)
SimilarityEdgesFrom(chunks, pairs, k, threshold) ==
    IF k > Len(pairs) THEN <<>>
    ELSE LET a == chunks[pairs[k][1]]
             b == chunks[pairs[k][2]]
             similarity == calculate_similarity(a, b)
         IN  (IF RLess(threshold, similarity)
              THEN <<GraphEdge(a.id, b.id, "Similarity", similarity)>>
              ELSE <<>>) \o SimilarityEdgesFrom(chunks, pairs, k + 1, threshold)

build_similarity_edges(chunks, threshold) ==
    SimilarityEdgesFrom(chunks, SimilarityPairs(Len(chunks)), 1, threshold)

stop_words ==
    {<<"t", "h", "e">>, <<"a">>, <<"a", "n">>, <<"a", "n", "d">>, <<"o", "r">>, <<"b", "u", "t">>, <<"i", "n">>,
     <<"o", "n">>, <<"a", "t">>, <<"t", "o">>, <<"f", "o", "r">>, <<"o", "f">>, <<"w", "i", "t", "h">>, <<"b", "y">>}

\* str::trim_matches(|c| !c.is_alphanumeric())
RECURSIVE TrimNonAlphanumeric(_)
TrimNonAlphanumeric(w) ==
    IF w = <<>> THEN w
    ELSE IF ~IsAlphanumeric(Head(w)) THEN TrimNonAlphanumeric(Tail(w))
    ELSE IF ~IsAlphanumeric(w[Len(w)]) THEN TrimNonAlphanumeric(SubSeq(w, 1, Len(w) - 1))
    ELSE w

\* GraphBuilder::extract_keywords
GraphKeywords(text) ==
    LET words == SplitWhitespace(text)
        stripped == [i \in 1..Len(words) |-> TrimNonAlphanumeric(ToLowercase(words[i]))]
    IN  SelectSeq(stripped, LAMBDA w : StrLen(w) > 3 /\ w \notin stop_words)

\* extract_word_nodes: <<nodes, edges>> after the words of the chunks from
\* the i-th on, the words of the i-th chunk from the k-th on
RECURSIVE WordNodesFrom(_, _, _, _, _)
WordNodesFrom(map, list, chunks, i, k) ==
    IF i > Len(chunks) THEN <<map, list>>
    ELSE LET words == GraphKeywords(chunks[i].content)
         IN  IF k > Len(words) THEN WordNodesFrom(map, list, chunks, i + 1, 1)
             ELSE LET word == words[k]
                  IN  WordNodesFrom(
                          IF ContainsKey(map, word) THEN map
                          ELSE Insert(map, word, GraphNode(word, "Word", word, <<>>)),
                          Append(list, GraphEdge(chunks[i].id, word, "Contains", <<1, 1>>)),
                          chunks, i, k + 1)

extract_word_nodes(map, list, chunks) == WordNodesFrom(map, list, chunks, 1, 1)

\* format!("{}#{}", doc_id, chapter)
ChapterId(doc_id, chapter) == doc_id \o <<"#">> \o chapter

\* The first loop of build_hierarchical_relationships: chapter nodes and the
\* chunk -> chapter edges
RECURSIVE ChapterNodesFrom(_, _, _, _)
ChapterNodesFrom(map, list, chunks, i) ==
    IF i > Len(chunks) THEN <<map, list>>
    ELSE IF chunks[i].chapter = None THEN ChapterNodesFrom(map, list, chunks, i + 1)
    ELSE LET chapter == chunks[i].chapter[1]
             chapter_id == ChapterId(chunks[i].source_file, chapter)
         IN  ChapterNodesFrom(
                 IF ContainsKey(map, chapter_id) THEN map
                 ELSE Insert(map, chapter_id, GraphNode(chapter_id, "Chapter", chapter, <<>>)),
                 Append(list, GraphEdge(chunks[i].id, chapter_id, "PartOf", <<1, 1>>)),
                 chunks, i + 1)

\* The chunks of one source file, in batch order
ChunksOfFile(chunks, file) == SelectSeq(chunks, LAMBDA c : c.source_file = file)

SourceFiles(chunks) == {chunks[i].source_file : i \in 1..Len(chunks)}

\* The second loop of build_hierarchical_relationships over the documents
\* map, iterated in the order doc_order: document nodes and chunk ->
\* document edges
RECURSIVE DocumentNodesFrom(_, _, _, _, _)
DocumentNodesFrom(map, list, chunks, doc_order, d) ==
    IF d > Len(doc_order) THEN <<map, list>>
    ELSE LET doc_id == doc_order[d]
             members == ChunksOfFile(chunks, doc_id)
         IN  DocumentNodesFrom(
                 IF ContainsKey(map, doc_id) THEN map
                 ELSE Insert(map, doc_id, GraphNode(doc_id, "Document", doc_id, <<>>)),
                 list \o [m \in 1..Len(members) |->
                            GraphEdge(members[m].id, doc_id, "PartOf", <<1, 1>>)],
                 chunks, doc_order, d + 1)

build_hierarchical_relationships(map, list, chunks, doc_order) ==
    LET chapters == ChapterNodesFrom(map, list, chunks, 1)
    IN  DocumentNodesFrom(chapters[1], chapters[2], chunks, doc_order, 1)

\* The file's chunks left in batch order
KeepBatchOrder(seq) == seq

\* slice::sort_by_key(|c| c.boundaries.0): a stable sort by start boundary
SortByStart(seq) ==
    LET n == Len(seq)
        rank(i) == 1 + Cardinality({j \in 1..n :
                        \/ seq[j].boundaries[1] < seq[i].boundaries[1]
                        \/ (seq[j].boundaries[1] = seq[i].boundaries[1] /\ j < i)})
    IN  [p \in 1..n |-> seq[CHOOSE i \in 1..n : rank(i) = p]]

\* The Sequential edges of one file's chunks
SequentialEdges(members) ==
    LET sorted == SortByStart(members)
    IN  [i \in 1..(Len(sorted) - 1) |->
            GraphEdge(sorted[i].id, sorted[i + 1].id, "Sequential", <<1, 1>>)]

\* build_sequential_relationships over the file_chunks map, iterated in the
\* order file_order
RECURSIVE SequentialEdgesFrom(_, _, _)
SequentialEdgesFrom(chunks, file_order, f) ==
    IF f > Len(file_order) THEN <<>>
    ELSE SequentialEdges(ChunksOfFile(chunks, file_order[f]))
            \o SequentialEdgesFrom(chunks, file_order, f + 1)

build_sequential_relationships(chunks, file_order) ==
    SequentialEdgesFrom(chunks, file_order, 1)

\* A variant that rebuilds the edge list from the batch alone
BuildOnEmptyEdgeList(map, list, threshold, chunks, doc_order, file_order) ==
    LET chunk_nodes == AddChunkNodes(map, chunks, 1)
        words == extract_word_nodes(chunk_nodes, build_similarity_edges(chunks, threshold), chunks)
        hierarchy == build_hierarchical_relationships(words[1], words[2], chunks, doc_order)
    IN  <<hierarchy[1], hierarchy[2] \o build_sequential_relationships(chunks, file_order)>>

\* build_relationships: <<nodes, edges>> after the five steps, the two maps
\* keyed by source file being iterated in doc_order and file_order
build_relationships(map, list, threshold, chunks, doc_order, file_order) ==
    LET chunk_nodes == AddChunkNodes(map, chunks, 1)
        similar == list \o build_similarity_edges(chunks, threshold)
        words == extract_word_nodes(chunk_nodes, similar, chunks)
        hierarchy == build_hierarchical_relationships(words[1], words[2], chunks, doc_order)
    IN  <<hierarchy[1], hierarchy[2] \o build_sequential_relationships(chunks, file_order)>>

\* The for loop of find_related_chunks over the edge list from the i-th edge
\* on, for the queue entry (current_id, depth): a neighbour not yet visited
\* is marked visited and, when its node exists and is a Chunk, pushed to
\* related and to the queue
RECURSIVE ScanEdgesFrom(_, _, _, _, _, _)
ScanEdgesFrom(map, list, i, current_id, depth, walk) ==
    IF i > Len(list) THEN walk
    ELSE LET edge == list[i]
             touches == edge.from = current_id \/ edge.to = current_id
             next_id == IF edge.from = current_id THEN edge.to ELSE edge.from
             is_chunk == ContainsKey(map, next_id) /\ map[next_id].node_type = "Chunk"
         IN  IF ~touches \/ next_id \in walk.visited
             THEN ScanEdgesFrom(map, list, i + 1, current_id, depth, walk)
             ELSE ScanEdgesFrom(map, list, i + 1, current_id, depth,
                      [visited |-> walk.visited \cup {next_id},
                       related |-> IF is_chunk THEN Append(walk.related, next_id)
                                   ELSE walk.related,
                       queue |-> IF is_chunk THEN Append(walk.queue, <<next_id, depth + 1>>)
                                 ELSE walk.queue])

\* The while loop of find_related_chunks
RECURSIVE RelatedFrom(_, _, _, _)
RelatedFrom(map, list, max_depth, walk) ==
    IF walk.queue = <<>> THEN walk.related
    ELSE LET current == Head(walk.queue)
             popped == [walk EXCEPT !.queue = Tail(walk.queue)]
         IN  IF current[2] >= max_depth
             THEN RelatedFrom(map, list, max_depth, popped)
             ELSE RelatedFrom(map, list, max_depth,
                      ScanEdgesFrom(map, list, 1, current[1], current[2], popped))

find_related_chunks(map, list, chunk_id, max_depth) ==
    RelatedFrom(map, list, max_depth,
        [visited |-> {chunk_id}, related |-> <<>>, queue |-> << <<chunk_id, 0>> >>])

-----------------------------------------------------------------------------
(* graph/relationships.rs: RelationshipAnalyzer                            *)

\* f32::INFINITY as a quotient: RLess(q, Infinity) for every finite q
Infinity == <<1, 0>>

\* 1.0 / weight: the cost of an edge
InverseWeight(weight) ==
    IF weight[1] = 0 THEN Infinity
    ELSE IF weight[1] < 0 THEN <<-weight[2], -weight[1]>>
    ELSE <<weight[2], weight[1]>>

\* The cost of an edge, were the weight not inverted
PlainWeight(weight) == weight

\* The weight an edge contributes to a distance
EdgeCost(weight) == InverseWeight(weight)

\* distances.get(key).unwrap_or(&f32::INFINITY)
DistanceOf(distances, key) ==
    IF key \in DOMAIN distances THEN distances[key] ELSE Infinity

\* The bytes of the characters node ids are written with, in increasing order
ByteOrder == <<" ", "#", "-", ".">> \o DigitChars \o UpperLetters \o <<"_">> \o LowerLetters
ByteRank(c) == CHOOSE i \in 1..Len(ByteOrder) : ByteOrder[i] = c

\* String's Ord: lexicographic by bytes
RECURSIVE StringLess(_, _)
StringLess(a, b) ==
    IF b = <<>> THEN FALSE
    ELSE IF a = <<>> THEN TRUE
    ELSE IF Head(a) = Head(b) THEN StringLess(Tail(a), Tail(b))
    ELSE ByteRank(Head(a)) < ByteRank(Head(b))

\* BinaryHeap::pop on Reverse((OrderedFloat, String)) entries: the entry with
\* the least distance, the least node id among those
HeapMin(unvisited) ==
    CHOOSE m \in unvisited :
        \A e \in unvisited :
            \/ e = m
            \/ RLess(m[1], e[1])
            \/ (~RLess(e[1], m[1]) /\ StringLess(m[2], e[2]))

\* The for loop over the edges from the i-th on, for a popped node:
\* <<distances, previous, unvisited>> after it
RECURSIVE RelaxFrom(_, _, _, _, _, _, _)
RelaxFrom(list, i, current_node, current_distance, distances, previous, unvisited) ==
    IF i > Len(list) THEN <<distances, previous, unvisited>>
    ELSE LET edge == list[i]
         IN  IF edge.from # current_node /\ edge.to # current_node
             THEN RelaxFrom(list, i + 1, current_node, current_distance,
                            distances, previous, unvisited)
             ELSE LET neighbor == IF edge.from = current_node THEN edge.to ELSE edge.from
                      distance == RAdd(current_distance, EdgeCost(edge.weight))
                  IN  IF RLess(distance, DistanceOf(distances, neighbor))
                      THEN RelaxFrom(list, i + 1, current_node, current_distance,
                                     Insert(distances, neighbor, distance),
                                     Insert(previous, neighbor, current_node),
                                     unvisited \cup {<<distance, neighbor>>})
                      ELSE RelaxFrom(list, i + 1, current_node, current_distance,
                                     distances, previous, unvisited)

\* The while loop of find_shortest_path: the previous map when it ends
RECURSIVE PopFrom(_, _, _, _, _)
PopFrom(list, to, distances, previous, unvisited) ==
    IF unvisited = {} THEN previous
    ELSE LET popped == HeapMin(unvisited)
             rest == unvisited \ {popped}
         IN  IF popped[2] = to THEN previous
             ELSE IF RLess(DistanceOf(distances, popped[2]), popped[1])
             THEN PopFrom(list, to, distances, previous, rest)
             ELSE LET relaxed == RelaxFrom(list, 1, popped[2], popped[1],
                                           distances, previous, rest)
                  IN  PopFrom(list, to, relaxed[1], relaxed[2], relaxed[3])

\* The reconstruction loop: <<path, current>> when previous has no entry
\* for current
RECURSIVE WalkBack(_, _, _)
WalkBack(previous, path, current) ==
    IF current \in DOMAIN previous
    THEN WalkBack(previous, Append(path, current), previous[current])
    ELSE <<path, current>>

Reverse(seq) == [i \in 1..Len(seq) |-> seq[Len(seq) + 1 - i]]

\* find_shortest_path: Some(path) or None
find_shortest_path(map, list, from, to) ==
    LET initial == [k \in DOMAIN map \cup {from} |-> IF k = from THEN <<0, 1>> ELSE Infinity]
        previous == PopFrom(list, to, initial, <<>>, {<< <<0, 1>>, from >>})
        walked == WalkBack(previous, <<>>, to)
    IN  IF walked[2] = from THEN Some(Reverse(Append(walked[1], from))) ELSE None

-----------------------------------------------------------------------------
(* search/bm25.rs: HybridSearch                                            *)

SearchResult(chunk_id, score, content, metadata) ==
    [chunk_id |-> chunk_id, score |-> score, content |-> content, metadata |-> metadata]

RRF_K == 60

\* 1.0 / (RRF_K + rank as f32 + 1.0), rank counted from 0
RrfScore(rank) == <<1, RRF_K + rank + 1>>

\* The loop over semantic_results: HashMap::insert replaces the entry of a
\* chunk id that is already present
RECURSIVE SemanticScoresFrom(_, _, _, _)
SemanticScoresFrom(semantic_results, i, weight, doc_scores) ==
    IF i > Len(semantic_results) THEN doc_scores
    ELSE LET result == semantic_results[i]
         IN  SemanticScoresFrom(semantic_results, i + 1, weight,
                 Insert(doc_scores, result.chunk_id,
                        [score |-> RMul(weight, RrfScore(i - 1)),
                         content |-> result.content, metadata |-> result.metadata]))

\* The loop over keyword_results: entry().and_modify() adds to the score of
\* an entry that is present and keeps its content and metadata; or_insert()
\* creates the entry otherwise
RECURSIVE KeywordScoresFrom(_, _, _, _)
KeywordScoresFrom(keyword_results, i, weight, doc_scores) ==
    IF i > Len(keyword_results) THEN doc_scores
    ELSE LET result == keyword_results[i]
             rrf_score == RMul(weight, RrfScore(i - 1))
             entry == IF ContainsKey(doc_scores, result.chunk_id)
                      THEN [doc_scores[result.chunk_id] EXCEPT
                                !.score = RAdd(doc_scores[result.chunk_id].score, rrf_score)]
                      ELSE [score |-> rrf_score,
                            content |-> result.content, metadata |-> result.metadata]
         IN  KeywordScoresFrom(keyword_results, i + 1, weight,
                               Insert(doc_scores, result.chunk_id, entry))

\* slice::sort_by with b.score.partial_cmp(&a.score) on scores that are
\* rationals: stable, descending
SortByRrfScoreDescending(seq) ==
    LET n == Len(seq)
        rank(i) == 1 + Cardinality({j \in 1..n :
                        \/ RLess(seq[i].score, seq[j].score)
                        \/ (seq[j].score = seq[i].score /\ j < i)})
    IN  [p \in 1..n |-> seq[CHOOSE i \in 1..n : rank(i) = p]]

\* merge_with_rrf; order is the order in which doc_scores.into_iter() yields
\* the chunk ids
merge_with_rrf(sem_weight, kw_weight, semantic_results, keyword_results, top_k, order) ==
    LET doc_scores == KeywordScoresFrom(keyword_results, 1, kw_weight,
                          SemanticScoresFrom(semantic_results, 1, sem_weight, <<>>))
        final_results == [p \in 1..Len(order) |->
                             SearchResult(order[p], doc_scores[order[p]].score,
                                          doc_scores[order[p]].content,
                                          doc_scores[order[p]].metadata)]
    IN  Take(SortByRrfScoreDescending(final_results), top_k)

-----------------------------------------------------------------------------
(* storage/chunks.rs: ChunkStore, and storage/index.rs: Storage.  The sled *)
(* trees are maps from key to value; I/O errors of sled are not modelled.  *)

\* sled::Tree::remove and HashMap without a key
RemoveKey(map, key) == [k \in DOMAIN map \ {key} |-> map[k]]

\* ChunkStore::generate_content_hash: the SHA-256 digest of the content's
\* bytes, taken to be free of collisions
generate_content_hash(content) == <<"sha256", content>>

\* ChunkStore::store: the two trees after the call and Ok(result)
store(tree, index, chunk) ==
    LET content_hash == generate_content_hash(chunk.content)
    IN  IF ContainsKey(index, content_hash)
        THEN [db |-> tree, hash_index |-> index, result |-> FALSE]
        ELSE [db |-> Insert(tree, chunk.id, chunk),
              hash_index |-> Insert(index, content_hash, chunk.id),
              result |-> TRUE]

\* ChunkStore::get
get(tree, chunk_id) == IF ContainsKey(tree, chunk_id) THEN Some(tree[chunk_id]) ELSE None

\* ChunkStore::delete: the db tree after the call; hash_index is not touched
delete(tree, chunk_id) == RemoveKey(tree, chunk_id)

\* chunk.metadata as serialised into the metadata tree
ChunkMetadata(chunk) ==
    [source_file |-> chunk.source_file, chunk_type |-> chunk.chunk_type,
     chapter |-> chunk.chapter, section |-> chunk.section, language |-> chunk.language,
     line_start |-> chunk.line_start, line_end |-> chunk.line_end,
     chunk_size |-> chunk.chunk_size]

\* Storage::store_chunk: the two trees and the embedding cache after the call
store_chunk(chunks_tree, metadata_tree, cache, chunk) ==
    [chunk_store |-> Insert(chunks_tree, chunk.id, chunk),
     metadata_store |-> Insert(metadata_tree, chunk.id, ChunkMetadata(chunk)),
     embeddings |-> IF chunk.embedding # <<>>
                    THEN Insert(cache, chunk.id, chunk.embedding)
                    ELSE cache]

\* Storage::get_chunk
get_chunk(chunks_tree, chunk_id) ==
    IF ContainsKey(chunks_tree, chunk_id) THEN Some(chunks_tree[chunk_id]) ELSE None

-----------------------------------------------------------------------------
(* The chunkers applied to documents                                       *)

MaxTextLen == 5
MaxSentences == 3
MaxCodeLines == 3
MaxBlocks == 3

\* SemanticChunker::new(max_chunk_size, min_chunk_size, overlap_tokens): small
\* configurations and the one of test_chunk_operations (512, 100, 50)
ChunkerPool ==
    {<<3, 0, 2>>, <<4, 2, 1>>, <<2, 1, 0>>, <<3, 1, 5>>, <<3, 3, 0>>, <<12, 4, 2>>,
     <<512, 100, 50>>}

ChunkAlphabet == {"a", WideLower, ".", " ", "\n"}

RECURSIVE TextsOfLen(_)
TextsOfLen(n) ==
    IF n = 0 THEN {<<>>}
    ELSE {Append(t, c) : t \in TextsOfLen(n - 1), c \in ChunkAlphabet}

\* Longer texts, of up to MaxSentences sentences
SentencePool == {<<"a", ".", " ">>, <<".", " ">>, <<"a", "a", "a">>}

RECURSIVE TextsOfSentences(_)
TextsOfSentences(n) ==
    IF n = 0 THEN {<<>>}
    ELSE {t \o s : t \in TextsOfSentences(n - 1), s \in SentencePool}

ChunkTexts ==
    UNION {TextsOfLen(n) : n \in 0..MaxTextLen}
        \cup UNION {TextsOfSentences(n) : n \in 0..MaxSentences}

LinePool ==
    {<<"f", "n", " ", "a", "(", ")", " ", "{">>,
     <<"}">>,
     <<"x">>,
     <<"d", "e", "f", " ", "b", "(", ")", ":">>,
     <<")">>,
     <<" ", " ", "f", "n", " ", "c", "(", ")">>}
LanguagePool == {"rust", "python", "javascript", "c"}

RECURSIVE CodesOfLines(_)
CodesOfLines(n) ==
    IF n = 0 THEN {<<>>}
    ELSE {c \o l \o <<"\n">> : c \in CodesOfLines(n - 1), l \in LinePool}

ChunkCodes == UNION {CodesOfLines(n) : n \in 0..MaxCodeLines}

\* The event streams of markdown blocks: headings and paragraphs
Heading(level, text) == <<HeadingStart(level), TextEvent(text), HeadingEnd>>
Paragraph(events) == <<OtherEvent>> \o events \o <<OtherEvent>>

BlockPool ==
    {Heading(1, <<"C", "h", "a", "p", "t", "e", "r", " ", "1">>),
     Heading(2, <<"I", "n", "t", "r", "o">>),
     Heading(3, <<"4", ".", "3", " ", "X">>),
     Heading(2, <<"2", ".", "1">>),
     Paragraph(<<TextEvent(<<"a", ".", " ", "a">>)>>),
     Paragraph(<<TextEvent(<<"a", ".">>), SoftBreak, TextEvent(<<"b">>)>>),
     Paragraph(<<TextEvent(<<"a", " ">>), CodeEvent(<<"x">>), HardBreak>>)}

RECURSIVE EventsOfBlocks(_)
EventsOfBlocks(n) ==
    IF n = 0 THEN {<<>>}
    ELSE {e \o b : e \in EventsOfBlocks(n - 1), b \in BlockPool}

ChunkEvents == UNION {EventsOfBlocks(n) : n \in 0..MaxBlocks}

CkInit ==
    /\ \E new \in ChunkerPool :
          /\ max_chunk_size = new[1]
          /\ min_chunk_size = new[2]
          /\ overlap_tokens = new[3]
    /\ ck_call = None
CkIdle ==
    /\ max_chunk_size = 512
    /\ min_chunk_size = 100
    /\ overlap_tokens = 50
    /\ ck_call = None

\* TextProcessor::extract_and_chunk: chunk_text on the file's content
ChunkText(text) ==
    /\ ck_call = None
    /\ ck_call' = Some([op |-> "chunk_text", input |-> text,
                        chunks |-> chunk_text(text, "a.txt")])
    /\ UNCHANGED <<max_chunk_size, min_chunk_size, overlap_tokens>>

\* CodeProcessor::extract_and_chunk: chunk_code on the file's content
ChunkCode(code, language) ==
    /\ ck_call = None
    /\ ck_call' = Some([op |-> "chunk_code", input |-> code, language |-> language,
                        chunks |-> chunk_code(code, language, "a.rs")])
    /\ UNCHANGED <<max_chunk_size, min_chunk_size, overlap_tokens>>

\* MarkdownProcessor::extract_and_chunk on the events of the file's content
ChunkMarkdown(events) ==
    /\ ck_call = None
    /\ ck_call' = Some([op |-> "extract_and_chunk", input |-> events,
                        chunks |-> extract_and_chunk(events, "a.md")])
    /\ UNCHANGED <<max_chunk_size, min_chunk_size, overlap_tokens>>

\* One document is chunked per behaviour.
CkNext ==
    /\ ck_call = None
    /\ \/ \E text \in ChunkTexts : ChunkText(text)
       \/ \E code \in ChunkCodes, language \in LanguagePool : ChunkCode(code, language)
       \/ \E events \in ChunkEvents : ChunkMarkdown(events)

-----------------------------------------------------------------------------
(* Batches of chunks handed to the graph builder                           *)

MaxChunks == 3
MaxRebuiltChunks == 2
MaxRepeats == 1
MaxDepth == 2

FileA == <<"a", ".", "m", "d">>
FileB == <<"b", ".", "m", "d">>
ChapterOne == <<"C", "h", " ", "1">>

\* What a chunk of a batch looks like before it gets its id: source file,
\* boundaries, content, embedding and chapter; the last one names its own file
ChunkShapes ==
    {[source_file |-> FileA, boundaries |-> <<0, 10>>, content |-> <<"a", "l", "p", "h", "a", " ", "b", "e", "t", "a">>,
      embedding |-> <<3, 4>>, chapter |-> Some(ChapterOne)],
     [source_file |-> FileA, boundaries |-> <<10, 20>>, content |-> <<"a", "l", "p", "h", "a", " ", "b", "e", "t", "a">>,
      embedding |-> <<>>, chapter |-> Some(ChapterOne)],
     [source_file |-> FileA, boundaries |-> <<20, 30>>, content |-> <<"W", "i", "t", "h", " ", "(", "g", "a", "m", "m", "a", ")", ".">>,
      embedding |-> <<4, 3>>, chapter |-> None],
     [source_file |-> FileB, boundaries |-> <<0, 10>>, content |-> <<"a", "l", "p", "h", "a">>,
      embedding |-> <<4, 3>>, chapter |-> None],
     [source_file |-> FileB, boundaries |-> <<10, 20>>, content |-> <<"T", "h", "e", " ", "b", ".", "m", "d", " ", "b", "e", "t", "a">>,
      embedding |-> <<1, 0, 0>>, chapter |-> Some(ChapterOne)]}

\* The similarity thresholds: 0.7 is the one of the test configuration
ThresholdPool == {<<7, 10>>, <<1, 4>>}

\* A chunk of a batch: the shape with the id the chunker gave it
BatchChunk(shape, id) ==
    [NewChunk(id, shape.content, "Markdown", shape.source_file, None,
              shape.boundaries[1], shape.boundaries[2], StrLen(shape.content))
        EXCEPT !.embedding = shape.embedding, !.chapter = shape.chapter]

\* The batches of n chunks, the chunker having drawn `drawn` ids before
Batches(n, drawn) ==
    {[i \in 1..n |-> BatchChunk(shapes[i], Uuid(drawn + i))] :
        shapes \in [1..n -> ChunkShapes]}

GrInit ==
    /\ nodes = <<>>
    /\ edges = <<>>
    /\ similarity_threshold \in ThresholdPool
    /\ gr_chunks = 0
    /\ gr_last = None
    /\ gr_related = None
GrIdle ==
    /\ nodes = <<>>
    /\ edges = <<>>
    /\ similarity_threshold = <<7, 10>>
    /\ gr_chunks = 0
    /\ gr_last = None
    /\ gr_related = None

\* GraphBuilder::build_relationships on a batch
BuildRelationships(chunks, doc_order, file_order) ==
    LET built == build_relationships(nodes, edges, similarity_threshold, chunks,
                                     doc_order, file_order)
    IN  /\ nodes' = built[1]
        /\ edges' = built[2]
        /\ gr_chunks' = gr_chunks + Len(chunks)
        /\ gr_last' = Some([chunks |-> chunks, edges_before |-> Len(edges), repeats |-> 0])
        /\ gr_related' = None
        /\ UNCHANGED similarity_threshold

\* GraphBuilder::build_relationships on the batch of the last call once more
\* (the same document ingested again)
RebuildRelationships(doc_order, file_order) ==
    LET chunks == gr_last[1].chunks
        built == build_relationships(nodes, edges, similarity_threshold, chunks,
                                     doc_order, file_order)
    IN  /\ nodes' = built[1]
        /\ edges' = built[2]
        /\ gr_last' = Some([chunks |-> chunks, edges_before |-> Len(edges),
                            repeats |-> gr_last[1].repeats + 1])
        /\ gr_related' = None
        /\ UNCHANGED <<similarity_threshold, gr_chunks>>

\* GraphBuilder::find_related_chunks
FindRelatedChunks(chunk_id, max_depth) ==
    /\ gr_related' = Some([chunk_id |-> chunk_id, max_depth |-> max_depth,
                           related |-> find_related_chunks(nodes, edges, chunk_id, max_depth)])
    /\ UNCHANGED <<nodes, edges, similarity_threshold, gr_chunks, gr_last>>

GrNext ==
    \E n \in 0..(MaxChunks - gr_chunks) :
        \E chunks \in Batches(n, gr_chunks) :
            \E doc_order \in Orders(SourceFiles(chunks)),
               file_order \in Orders(SourceFiles(chunks)) :
                BuildRelationships(chunks, doc_order, file_order)

\* Batches are built and then the last one is built again
GrRebuildNext ==
    \/ /\ IF gr_last = None THEN TRUE ELSE gr_last[1].repeats = 0
       /\ \E n \in 0..(MaxRebuiltChunks - gr_chunks) :
            \E chunks \in Batches(n, gr_chunks) :
                \E doc_order \in Orders(SourceFiles(chunks)),
                   file_order \in Orders(SourceFiles(chunks)) :
                    BuildRelationships(chunks, doc_order, file_order)
    \/ /\ gr_last # None
       /\ gr_last[1].repeats < MaxRepeats
       /\ \E doc_order \in Orders(SourceFiles(gr_last[1].chunks)),
             file_order \in Orders(SourceFiles(gr_last[1].chunks)) :
                RebuildRelationships(doc_order, file_order)

\* Batches are built and related chunks are looked up
GrQueryNext ==
    \/ GrNext
    \/ /\ gr_related = None
       /\ \E chunk_id \in {Uuid(n) : n \in 1..gr_chunks}, max_depth \in 0..MaxDepth :
            FindRelatedChunks(chunk_id, max_depth)

-----------------------------------------------------------------------------
(* The analyzer built on a snapshot of nodes and edges                     *)

MaxEdges == 3

NodePool == {<<"n", "1">>, <<"n", "2">>, <<"n", "3">>, <<"n", "4">>}

\* The ends an edge of a snapshot may join, in the direction it is stored
EdgeEnds ==
    {<< <<"n", "1">>, <<"n", "2">> >>, << <<"n", "3">>, <<"n", "2">> >>,
     << <<"n", "1">>, <<"n", "3">> >>, << <<"n", "3">>, <<"n", "4">> >>,
     << <<"n", "2">>, <<"n", "2">> >>}

\* Edge weights, all positive
WeightPool == {<<1, 1>>, <<1, 4>>}

SnapshotEdges == {GraphEdge(ends[1], ends[2], "Similarity", w) : ends \in EdgeEnds, w \in WeightPool}

RECURSIVE EdgeLists(_)
EdgeLists(n) ==
    IF n = 0 THEN {<<>>}
    ELSE {Append(l, e) : l \in EdgeLists(n - 1), e \in SnapshotEdges}

\* The node maps of a snapshot: every node of the pool, or only part of them
NodeMaps ==
    {[id \in ids |-> GraphNode(id, "Chunk", <<>>, <<>>)] :
        ids \in {NodePool, {<<"n", "1">>, <<"n", "2">>}}}

\* RelationshipAnalyzer::new(nodes, edges)
AnInit ==
    /\ an_nodes \in NodeMaps
    /\ an_edges \in UNION {EdgeLists(n) : n \in 0..MaxEdges}
    /\ an_call = None
AnIdle ==
    /\ an_nodes = <<>>
    /\ an_edges = <<>>
    /\ an_call = None

\* RelationshipAnalyzer::find_shortest_path
FindShortestPath(from, to) ==
    /\ an_call = None
    /\ an_call' = Some([from |-> from, to |-> to,
                        path |-> find_shortest_path(an_nodes, an_edges, from, to)])
    /\ UNCHANGED <<an_nodes, an_edges>>

AnNext ==
    /\ an_call = None
    /\ \E from \in NodePool, to \in NodePool : FindShortestPath(from, to)

-----------------------------------------------------------------------------
(* merge_with_rrf applied to two ranked lists                              *)

MaxRrfLen == 2
MaxRrfTopK == 3

RrfIds == {"c1", "c2", "c3"}
RrfWeights == {<< <<1, 1>>, <<1, 1>> >>, << <<7, 10>>, <<3, 10>> >>}

\* The ranked lists of n results: any chunk id at any rank; the metadata of
\* an entry tells which list and rank it came from
RankedLists(list, n) ==
    {[i \in 1..n |-> SearchResult(f[i], <<n - i, 1>>, <<"t">>, [list |-> list, rank |-> i - 1])] :
        f \in [1..n -> RrfIds]}

\* HybridSearch::new(semantic_weight, keyword_weight)
RrfInit ==
    /\ \E new \in RrfWeights : semantic_weight = new[1] /\ keyword_weight = new[2]
    /\ rrf_call = None
RrfIdle == semantic_weight = <<1, 1>> /\ keyword_weight = <<1, 1>> /\ rrf_call = None

ChunkIdsOf(results) == {results[i].chunk_id : i \in 1..Len(results)}

MergeWithRrf(semantic_results, keyword_results, top_k) ==
    \E order \in Orders(ChunkIdsOf(semantic_results) \cup ChunkIdsOf(keyword_results)) :
        /\ rrf_call' = Some([semantic_results |-> semantic_results,
                             keyword_results |-> keyword_results,
                             top_k |-> top_k,
                             out |-> merge_with_rrf(semantic_weight, keyword_weight,
                                         semantic_results, keyword_results, top_k, order)])
        /\ UNCHANGED <<semantic_weight, keyword_weight>>

RrfNext ==
    /\ rrf_call = None
    /\ \E semantic_results \in UNION {RankedLists("semantic", n) : n \in 0..MaxRrfLen},
          keyword_results \in UNION {RankedLists("keyword", n) : n \in 0..MaxRrfLen},
          top_k \in 0..MaxRrfTopK :
            MergeWithRrf(semantic_results, keyword_results, top_k)

-----------------------------------------------------------------------------
(* Chunks stored into a ChunkStore and into a Storage                      *)

MaxStoredIds == 2

StoredIds == {Uuid(n) : n \in 1..MaxStoredIds}
StoredContents == {<<"x">>, <<"y">>}

\* A chunk as the server hands it to the storage: chunked and embedded
StoredChunk(id, content) ==
    [NewChunk(id, content, "Text", "a.txt", None, 0, Len(content), StrLen(content))
        EXCEPT !.embedding = IF content = <<"x">> THEN <<1, 0>> ELSE <<>>]

StoredChunks == {StoredChunk(id, content) : id \in StoredIds, content \in StoredContents}

\* ChunkStore::new and Storage::new on an empty data directory
StoreInit ==
    /\ db = <<>> /\ hash_index = <<>>
    /\ chunk_store = <<>> /\ metadata_store = <<>> /\ embeddings = <<>>
    /\ store_call = None
StoreIdle == StoreInit

Store(chunk) ==
    LET after == store(db, hash_index, chunk)
    IN  /\ db' = after.db
        /\ hash_index' = after.hash_index
        /\ store_call' = Some([op |-> "ChunkStore::store", chunk |-> chunk,
                               result |-> IF after.result THEN "success" ELSE "duplicate"])
        /\ UNCHANGED <<chunk_store, metadata_store, embeddings>>

Get(chunk_id) ==
    /\ store_call' = Some([op |-> "ChunkStore::get", chunk_id |-> chunk_id,
                           result |-> get(db, chunk_id)])
    /\ UNCHANGED <<db, hash_index, chunk_store, metadata_store, embeddings>>

Delete(chunk_id) ==
    /\ db' = delete(db, chunk_id)
    /\ store_call' = Some([op |-> "ChunkStore::delete", chunk_id |-> chunk_id])
    /\ UNCHANGED <<hash_index, chunk_store, metadata_store, embeddings>>

Clear ==
    /\ db' = <<>>
    /\ hash_index' = <<>>
    /\ store_call' = Some([op |-> "ChunkStore::clear"])
    /\ UNCHANGED <<chunk_store, metadata_store, embeddings>>

StoreChunk(chunk) ==
    LET after == store_chunk(chunk_store, metadata_store, embeddings, chunk)
    IN  /\ chunk_store' = after.chunk_store
        /\ metadata_store' = after.metadata_store
        /\ embeddings' = after.embeddings
        /\ store_call' = Some([op |-> "Storage::store_chunk", chunk |-> chunk,
                               result |-> "success"])
        /\ UNCHANGED <<db, hash_index>>

GetChunk(chunk_id) ==
    /\ store_call' = Some([op |-> "Storage::get_chunk", chunk_id |-> chunk_id,
                           result |-> get_chunk(chunk_store, chunk_id)])
    /\ UNCHANGED <<db, hash_index, chunk_store, metadata_store, embeddings>>

StoreNext ==
    \/ \E chunk \in StoredChunks : Store(chunk)
    \/ \E chunk_id \in StoredIds : Get(chunk_id)
    \/ \E chunk_id \in StoredIds : Delete(chunk_id)
    \/ Clear
    \/ \E chunk \in StoredChunks : StoreChunk(chunk)
    \/ \E chunk_id \in StoredIds : GetChunk(chunk_id)

-----------------------------------------------------------------------------
(* mcp/handlers.rs and mcp/server.rs: the tools/call handler and McpServer  *)

\* A Result: Ok(value) or Err(error)
Ok(value) == [ok |-> TRUE, value |-> value]
Err(error) == [ok |-> FALSE, error |-> error]

\* serde_json values of the request: a string or a number
JsonString(s) == <<"string", s>>
JsonNumber(n) == <<"number", n>>

\* Value::as_str on an optional value (Option::and_then(|v| v.as_str()))
as_str(value) ==
    IF value = None \/ value[1][1] # "string" THEN None ELSE Some(value[1][2])

\* jsonrpc_core::Error values and the handler's successful result
invalid_params(message) ==
    [kind |-> "invalid_params", message |-> message, arg |-> <<>>, data |-> None]
internal_error(message, cause, path) ==
    [kind |-> "internal_error", message |-> message, arg |-> cause, data |-> Some(path)]
ToolResult(text, arg) ==
    [kind |-> "result", message |-> text, arg |-> arg, data |-> None]

\* A field every value of which is taken, an absent one as the empty string
DefaultedField(value, message) ==
    IF as_str(value) = None THEN Ok(<<>>) ELSE Ok(as_str(value)[1])

\* arguments.get(field).and_then(|v| v.as_str()).ok_or_else(|| invalid_params)
RequiredField(value, message) ==
    IF as_str(value) = None THEN Err(invalid_params(message)) ELSE Ok(as_str(value)[1])

\* The tools/call handler up to the call of a server method: Err with the
\* error it answers, or Ok with the method and its arguments
Dispatch(request) ==
    IF ~request.map THEN Err(invalid_params("Expected object parameters"))
    ELSE LET name == as_str(request.name) IN
         IF name = None THEN Err(invalid_params("Missing 'name' field"))
         ELSE IF name[1] = "ingest"
         THEN LET path == RequiredField(request.path, "Missing 'path' field") IN
              IF ~path.ok THEN path
              ELSE Ok([method |-> "ingest", path |-> path.value,
                       doc_type |-> as_str(request.doc_type), query |-> <<>>])
         ELSE IF name[1] \in {"search_knowledge_chunk", "search_knowledge_chapter"}
         THEN LET query == RequiredField(request.query, "Missing 'query' field") IN
              IF ~query.ok THEN query
              ELSE Ok([method |-> name[1], path |-> <<>>, doc_type |-> None,
                       query |-> query.value])
         ELSE Err(invalid_params("Unknown tool"))

\* Path::extension: what follows the last dot of the file name, if the name
\* has a dot that is not its first character
RECURSIVE LastDot(_, _)
LastDot(path, i) ==
    IF i = 0 THEN 0 ELSE IF path[i] = "." THEN i ELSE LastDot(path, i - 1)
Extension(path) ==
    LET dot == LastDot(path, Len(path))
    IN  IF dot <= 1 THEN None ELSE Some(SubSeq(path, dot + 1, Len(path)))

\* CodeProcessor::detect_language
detect_language(path) ==
    LET ext == Extension(path) IN
    IF ext = None THEN None
    ELSE CASE ext[1] = <<"r", "s">> -> Some("rust")
           [] ext[1] = <<"p", "y">> -> Some("python")
           [] ext[1] = <<"j", "s">> -> Some("javascript")
           [] ext[1] = <<"t", "s">> -> Some("typescript")
           [] ext[1] = <<"j", "a", "v", "a">> -> Some("java")
           [] ext[1] \in {<<"c", "p", "p">>, <<"c", "c">>, <<"c", "x", "x">>} -> Some("cpp")
           [] ext[1] = <<"c">> -> Some("c")
           [] ext[1] = <<"g", "o">> -> Some("go")
           [] OTHER -> None

\* process_document: the document type, the given one or the one detected
\* from the extension
detected_type(path, doc_type) ==
    IF doc_type # None THEN doc_type[1]
    ELSE LET ext == Extension(path) IN
         IF ext = None THEN "text"
         ELSE CASE ext[1] = <<"p", "d", "f">> -> "pdf"
                [] ext[1] \in {<<"m", "d">>, <<"m", "a", "r", "k", "d", "o", "w", "n">>} -> "markdown"
                [] ext[1] = <<"t", "x", "t">> -> "text"
                [] OTHER -> IF detect_language(path) # None THEN "code" ELSE "text"

\* The files of the working directory: the text std::fs::read_to_string
\* returns (None when the read fails), the events pulldown-cmark parses from
\* that text, and the text pdf_extract::extract_text returns (None when the
\* extraction fails).  A path without an entry does not exist.
PathNotes == <<"n", ".", "t", "x", "t">>
PathGone == <<"g", "o", "n", "e", ".", "t", "x", "t">>
PathScan == <<"c", ".", "p", "d", "f">>
PathPaper == <<"d", ".", "p", "d", "f">>
PathMain == <<"m", ".", "r", "s">>

TextAlphaBeta == <<"a", "l", "p", "h", "a", " ", "b", "e", "t", "a", ".">>
TextNotes == <<"a", "l", "p", "h", "a", ".", " ", "b", "e", "t", "a", " ", "g", "a", "m", "m", "a", ".">>
TextMainOpen == <<"f", "n", " ", "a", "(", ")", " ", "{">>

Files ==
    {[path |-> FileA,
      text |-> Some(<<"#", " ">> \o ChapterOne \o <<"\n">> \o TextAlphaBeta),
      events |-> Heading(1, ChapterOne) \o Paragraph(<<TextEvent(TextAlphaBeta)>>),
      pdf |-> None],
     [path |-> PathNotes,
      text |-> Some(TextNotes),
      events |-> Paragraph(<<TextEvent(TextNotes)>>),
      pdf |-> None],
     [path |-> PathMain,
      text |-> Some(TextMainOpen \o <<"\n", "}", "\n">>),
      events |-> Paragraph(<<TextEvent(TextMainOpen), SoftBreak, TextEvent(<<"}">>)>>),
      pdf |-> None],
     [path |-> PathScan, text |-> None, events |-> <<>>, pdf |-> None],
     [path |-> PathPaper, text |-> None, events |-> <<>>, pdf |-> Some(TextAlphaBeta)]}

FileAt(path) == {f \in Files : f.path = path}
FileOf(path) == CHOOSE f \in Files : f.path = path

\* A read that gives the empty string where the file cannot be read
ReadOrEmpty(path) ==
    IF FileAt(path) = {} \/ FileOf(path).text = None
    THEN Ok(<<>>)
    ELSE Ok(FileOf(path).text[1])

\* std::fs::read_to_string(path).map_err(...)
read_to_string(path) ==
    IF FileAt(path) = {} \/ FileOf(path).text = None
    THEN Err(<<"Failed to read file">>)
    ELSE Ok(FileOf(path).text[1])

\* pdf_extract::extract_text(path)
extract_text(path) ==
    IF FileAt(path) = {} \/ FileOf(path).pdf = None
    THEN Err(<<"pdf_extract">>)
    ELSE Ok(FileOf(path).pdf[1])

\* pulldown_cmark::Parser::new(content): the events of a file's content
ParserEvents(content) ==
    IF \E f \in Files : f.text = Some(content)
    THEN (CHOOSE f \in Files : f.text = Some(content)).events
    ELSE <<>>

\* EmbeddingModel::embed_text: a vector of unit length that depends on the
\* text alone
embed_text(text) ==
    IF Len(text) % 2 = 0 THEN <<3, 4>> ELSE <<4, 3>>

\* PdfProcessor::extract_and_chunk
pdf_extract_and_chunk(path) ==
    LET text == extract_text(path) IN
    IF ~text.ok THEN text
    ELSE LET chunks == chunk_text(text.value, path)
         IN  Ok([k \in 1..Len(chunks) |-> [chunks[k] EXCEPT !.chunk_type = "Pdf"]])

\* process_document: the content read, none for a PDF
ReadContent(detected, path) ==
    IF detected = "pdf" THEN Ok(<<>>) ELSE read_to_string(path)

\* process_document: the match on the detected type
ChunksOfType(detected, path, content) ==
    CASE detected = "pdf" -> pdf_extract_and_chunk(path)
      [] detected = "markdown" -> Ok(extract_and_chunk(ParserEvents(content), path))
      [] detected = "code" ->
             Ok(chunk_code(content,
                           IF detect_language(path) = None THEN "text"
                           ELSE detect_language(path)[1],
                           path))
      [] OTHER -> Ok(chunk_text(content, path))

\* process_document: the embedding of each chunk, the chunks carrying the
\* ids drawn after the `drawn` ones drawn before
Embedded(chunks, drawn) ==
    IF ~chunks.ok THEN chunks
    ELSE Ok([k \in 1..Len(chunks.value) |->
               [chunks.value[k] EXCEPT !.id = Uuid(drawn + k),
                                       !.embedding = embed_text(chunks.value[k].content)]])

\* process_document from the read on: the first failure ends it
ProcessAs(detected, path, content, drawn) ==
    IF ~content.ok THEN content
    ELSE Embedded(ChunksOfType(detected, path, content.value), drawn)

\* process_document up to the embeddings: Err with the cause, or Ok with the
\* chunks to store
process_document(path, doc_type, drawn) ==
    ProcessAs(detected_type(path, doc_type), path,
              ReadContent(detected_type(path, doc_type), path), drawn)

\* RagMcp::ingest: the error answered when process_document fails
IngestError(cause, path) == internal_error("Ingestion failed", cause, path)

\* Storage::store_chunk of the server's storage: a chunk whose content is
\* already stored under any id is a duplicate and leaves the store as it is
sqlite_store_chunk(stored, chunk) ==
    IF \E id \in DOMAIN stored : stored[id].content = chunk.content
    THEN stored
    ELSE Insert(stored, chunk.id, chunk)

\* The for loop of process_document over the chunks from the i-th on
RECURSIVE StoreChunksFrom(_, _, _)
StoreChunksFrom(stored, chunks, i) ==
    IF i > Len(chunks) THEN stored
    ELSE StoreChunksFrom(sqlite_store_chunk(stored, chunks[i]), chunks, i + 1)

\* tokio::sync::RwLock: write() is granted when nobody holds the lock,
\* read() when no writer holds it
Unlocked == [writer |-> None, readers |-> {}]
WriteWhileRead(lock) == lock.writer = None
CanWrite(lock) == lock.writer = None /\ lock.readers = {}
CanRead(lock) == lock.writer = None
-----------------------------------------------------------------------------
(* The server: tasks that each serve one tools/call request, and a reader   *)
(* of the graph                                                            *)

MaxTasks == 2

Tasks == 1..MaxTasks

\* The params of a tools/call request: whether they are an object, and the
\* values of name and of the arguments path, doc_type and query
Request(name, path, doc_type, query) ==
    [map |-> TRUE, name |-> name, path |-> path, doc_type |-> doc_type, query |-> query]
Ingest(path, doc_type) ==
    Request(Some(JsonString("ingest")), path, doc_type, None)
SearchTool(name, query) ==
    Request(Some(JsonString(name)), None, None, query)

QueryAlpha == <<"a", "l", "p", "h", "a">>

RequestPool ==
    {[Request(None, None, None, None) EXCEPT !.map = FALSE],
     Request(None, Some(JsonString(FileA)), None, None),
     Request(Some(JsonString("delete")), Some(JsonString(FileA)), None, None),
     Ingest(None, None),
     Ingest(Some(JsonNumber(7)), Some(JsonString("markdown"))),
     Ingest(Some(JsonString(FileA)), None),
     Ingest(Some(JsonString(FileA)), Some(JsonString("docx"))),
     Ingest(Some(JsonString(PathNotes)), None),
     Ingest(Some(JsonString(PathNotes)), Some(JsonString("pdf"))),
     Ingest(Some(JsonString(PathGone)), None),
     Ingest(Some(JsonString(PathScan)), None),
     Ingest(Some(JsonString(PathPaper)), None),
     Ingest(Some(JsonString(PathMain)), None),
     SearchTool("search_knowledge_chunk", None),
     SearchTool("search_knowledge_chunk", Some(JsonString(QueryAlpha))),
     SearchTool("search_knowledge_chapter", Some(JsonNumber(7))),
     SearchTool("search_knowledge_chapter", Some(JsonString(QueryAlpha)))}

\* A task before its request arrives
IdleTask ==
    [pc |-> "idle", request |-> None, invoked |-> None, chunks |-> <<>>, response |-> None]

SrvInit ==
    /\ storage = <<>>
    /\ storage_lock = Unlocked
    /\ graph_lock = Unlocked
    /\ tasks = [t \in Tasks |-> IdleTask]
    /\ reader = "idle"
SrvIdle == SrvInit

\* McpServer::new of the server under test: a chunker of small chunks
SrvChunker ==
    /\ max_chunk_size = 12
    /\ min_chunk_size = 4
    /\ overlap_tokens = 2
    /\ ck_call = None

\* RagMcp::ingest up to the first await of process_document: the error
\* answered when it fails, or the chunks it goes on to store
IngestCalled(t, invoked, path, processed) ==
    IF ~processed.ok
    THEN /\ tasks' = [tasks EXCEPT ![t] =
                        [invoked EXCEPT !.pc = "done",
                                        !.response = Some(IngestError(processed.error, path))]]
         /\ UNCHANGED gr_chunks
    ELSE /\ tasks' = [tasks EXCEPT ![t] =
                        [invoked EXCEPT !.pc = "storage_write", !.chunks = processed.value]]
         /\ gr_chunks' = gr_chunks + Len(processed.value)

\* The tools/call handler once the request is parsed: the error answered,
\* or the call of the server method
Called(t, arrived, call) ==
    IF ~call.ok
    THEN /\ tasks' = [tasks EXCEPT ![t] =
                        [arrived EXCEPT !.pc = "done", !.response = Some(call.error)]]
         /\ UNCHANGED gr_chunks
    ELSE IF call.value.method = "ingest"
    THEN IngestCalled(t, [arrived EXCEPT !.invoked = Some(call.value)], call.value.path,
                      process_document(call.value.path, call.value.doc_type, gr_chunks))
    ELSE /\ tasks' = [tasks EXCEPT ![t] =
                        [arrived EXCEPT !.pc = "storage_read", !.invoked = Some(call.value)]]
         /\ UNCHANGED gr_chunks

\* The tools/call handler, from the arrival of the request to the first
\* await of the method it calls; tasks take their requests in order
ToolsCall(t, request) ==
    /\ tasks[t].pc = "idle"
    /\ \A u \in Tasks : u < t => tasks[u].pc # "idle"
    /\ Called(t, [IdleTask EXCEPT !.request = Some(request)], Dispatch(request))
    /\ UNCHANGED <<storage, storage_lock, graph_lock, reader, nodes, edges>>

\* process_document: self.storage.write().await
StorageWrite(t) ==
    /\ tasks[t].pc = "storage_write"
    /\ CanWrite(storage_lock)
    /\ storage_lock' = [storage_lock EXCEPT !.writer = Some(t)]
    /\ tasks' = [tasks EXCEPT ![t].pc = "storing"]
    /\ UNCHANGED <<storage, graph_lock, reader, nodes, edges, gr_chunks>>

\* The error of a store_chunk call that fails
StoreFailure == "Failed to store chunk"

\* `storage.store_chunk(chunk)?`: an error ends process_document, and the
\* task goes on to the graph only when every call succeeded
IgnoreError(error) == "graph_write"
PropagateError(error) == IF error = None THEN "graph_write" ELSE "done"

\* process_document: the loop of store_chunk, in which the call for the
\* chunk at `failing` fails (none fails when failing = 0), and the end of
\* the block that holds the write guard
StoreChunksUpTo(t, failing, error) ==
    /\ tasks[t].pc = "storing"
    /\ storage' = StoreChunksFrom(storage, SubSeq(tasks[t].chunks, 1, failing - 1), 1)
    /\ storage_lock' = [storage_lock EXCEPT !.writer = None]
    /\ tasks' = [tasks EXCEPT ![t].pc = PropagateError(error),
                              ![t].response =
                                  IF error = None THEN None
                                  ELSE Some(IngestError(error[1], tasks[t].invoked[1].path))]
    /\ UNCHANGED <<graph_lock, reader, nodes, edges, gr_chunks>>

StoreChunks(t, failing) ==
    IF failing = 0 THEN StoreChunksUpTo(t, Len(tasks[t].chunks) + 1, None)
    ELSE StoreChunksUpTo(t, failing, Some(StoreFailure))

\* process_document: self.graph.write().await
GraphWrite(t) ==
    /\ tasks[t].pc = "graph_write"
    /\ CanWrite(graph_lock)
    /\ graph_lock' = [graph_lock EXCEPT !.writer = Some(t)]
    /\ tasks' = [tasks EXCEPT ![t].pc = "add_chunk_nodes"]
    /\ UNCHANGED <<storage, storage_lock, reader, nodes, edges, gr_chunks>>

\* build_relationships under the write guard: its first loop
AddBatchNodes(t) ==
    /\ tasks[t].pc = "add_chunk_nodes"
    /\ nodes' = AddChunkNodes(nodes, tasks[t].chunks, 1)
    /\ tasks' = [tasks EXCEPT ![t].pc = "build_edges"]
    /\ UNCHANGED <<storage, storage_lock, graph_lock, reader, edges, gr_chunks>>

\* build_relationships under the write guard: the steps after its first loop
\* (the chunk nodes are in the map already, and inserting them again leaves
\* it as it is), the end of the block that holds the guard, and the answer
AddBatchEdges(t, doc_order, file_order) ==
    /\ tasks[t].pc = "build_edges"
    /\ LET built == build_relationships(nodes, edges, similarity_threshold,
                                        tasks[t].chunks, doc_order, file_order)
       IN  /\ nodes' = built[1]
           /\ edges' = built[2]
    /\ graph_lock' = [graph_lock EXCEPT !.writer = None]
    /\ tasks' = [tasks EXCEPT ![t].pc = "done",
                              ![t].response = Some(ToolResult("Successfully ingested document",
                                                              tasks[t].invoked[1].path))]
    /\ UNCHANGED <<storage, storage_lock, reader, gr_chunks>>

\* search_chunks: self.storage.read().await
StorageRead(t) ==
    /\ tasks[t].pc = "storage_read"
    /\ CanRead(storage_lock)
    /\ storage_lock' = [storage_lock EXCEPT !.readers = @ \cup {t}]
    /\ tasks' = [tasks EXCEPT ![t].pc = "searching"]
    /\ UNCHANGED <<storage, graph_lock, reader, nodes, edges, gr_chunks>>

\* search_chunks under the read guard, and the answer of the search tool
SearchAnswered(t) ==
    /\ tasks[t].pc = "searching"
    /\ storage_lock' = [storage_lock EXCEPT !.readers = @ \ {t}]
    /\ tasks' = [tasks EXCEPT ![t].pc = "done",
                              ![t].response = Some(ToolResult("search results",
                                                              tasks[t].invoked[1].query))]
    /\ UNCHANGED <<storage, graph_lock, reader, nodes, edges, gr_chunks>>

\* A task with read access to the graph: graph.read().await
GraphRead ==
    /\ reader = "idle"
    /\ CanRead(graph_lock)
    /\ graph_lock' = [graph_lock EXCEPT !.readers = @ \cup {"reader"}]
    /\ reader' = "reading"
    /\ UNCHANGED <<storage, storage_lock, tasks, nodes, edges, gr_chunks>>

\* The reader drops its guard
GraphReadDone ==
    /\ reader = "reading"
    /\ graph_lock' = [graph_lock EXCEPT !.readers = @ \ {"reader"}]
    /\ reader' = "idle"
    /\ UNCHANGED <<storage, storage_lock, tasks, nodes, edges, gr_chunks>>

SrvNext ==
    /\ \/ \E t \in Tasks, request \in RequestPool : ToolsCall(t, request)
       \/ \E t \in Tasks : StorageWrite(t)
       \/ \E t \in Tasks : \E failing \in 0..Len(tasks[t].chunks) : StoreChunks(t, failing)
       \/ \E t \in Tasks : GraphWrite(t)
       \/ \E t \in Tasks : AddBatchNodes(t)
       \/ \E t \in Tasks :
            \E doc_order \in Orders(SourceFiles(tasks[t].chunks)),
               file_order \in Orders(SourceFiles(tasks[t].chunks)) :
                AddBatchEdges(t, doc_order, file_order)
       \/ \E t \in Tasks : StorageRead(t)
       \/ \E t \in Tasks : SearchAnswered(t)
       \/ GraphRead
       \/ GraphReadDone
    /\ UNCHANGED <<similarity_threshold, gr_last, gr_related>>

-----------------------------------------------------------------------------
(* mcp/server.rs: search_chunks and search_chapters                        *)

\* The metadata map of a search result: the keys source_file, chapter and
\* section, each present or not
MetadataMap(source_file, chapter, section) ==
    [source_file |-> source_file, chapter |-> chapter, section |-> section]

\* The ranked lists of n results over distinct chunks of the storage, with
\* scores of the given pool
RankedHits(stored, scores, n) ==
    {[i \in 1..n |-> SearchResult(stored[pick[i]].id, score[i], stored[pick[i]].content,
                                  stored[pick[i]].metadata)] :
        pick \in {p \in [1..n -> 1..Len(stored)] : \A i, j \in 1..n : p[i] = p[j] => i = j},
        score \in {s \in [1..n -> scores] : \A i \in 1..(n - 1) : s[i] >= s[i + 1]}}

Min(a, b) == IF a < b THEN a ELSE b

\* Storage::search_similar(embedding, top_k): what the storage may answer,
\* the top_k best of all stored chunks by cosine similarity, ranked
search_similar(stored, scores, top_k) ==
    RankedHits(stored, scores, Min(top_k, Len(stored)))

\* Storage::search_by_text(query, top_k): what the storage may answer, at
\* most top_k of the stored chunks, ranked by a lexical score
search_by_text(stored, scores, top_k) ==
    UNION {RankedHits(stored, scores, n) : n \in 0..Min(top_k, Len(stored))}

\* Vec::dedup_by(|a, b| a.chunk_id == b.chunk_id): of consecutive results
\* with the same chunk id the first is kept
RECURSIVE DedupByChunkId(_)
DedupByChunkId(results) ==
    IF Len(results) <= 1 THEN results
    ELSE IF results[2].chunk_id = results[1].chunk_id
         THEN DedupByChunkId(<<results[1]>> \o SubSeq(results, 3, Len(results)))
         ELSE <<results[1]>> \o DedupByChunkId(Tail(results))

\* McpServer::search_chunks on the answers of the storage; the text search
\* is consulted, and the lists merged, when the vector search found fewer
\* than top_k results; apply_graph_reranking returns its input
search_chunks(similar, by_text, top_k) ==
    Take(IF Len(similar) < top_k
         THEN DedupByChunkId(SortByScoreDescending(similar \o by_text))
         ELSE similar,
         top_k)

\* format!("{}#{}", source_file, chapter)
ChapterKey(source_file, chapter) == source_file \o <<"#">> \o chapter

StrUnknown == <<"u", "n", "k", "n", "o", "w", "n">>
StrUnknownSection == <<"U", "n", "k", "n", "o", "w", "n", " ", "S", "e", "c", "t", "i", "o", "n">>

\* metadata.get("source_file").unwrap_or("unknown")
SourceFileOr(metadata) ==
    IF metadata.source_file # None THEN metadata.source_file[1] ELSE StrUnknown

\* chapter_scores.entry(key).or_insert((0.0, Vec::new())) with the score
\* added and the result pushed
AddToChapter(chapter_scores, chapter_key, result) ==
    IF ContainsKey(chapter_scores, chapter_key)
    THEN [chapter_scores EXCEPT ![chapter_key] =
            [score |-> @.score + result.score, chunks |-> Append(@.chunks, result)]]
    ELSE Insert(chapter_scores, chapter_key, [score |-> result.score, chunks |-> <<result>>])

\* metadata.get("chapter").or_else(|| metadata.get("section"))
ChapterName(metadata) ==
    IF metadata.chapter # None THEN metadata.chapter ELSE metadata.section

\* The first loop of search_chapters: results with a chapter or a section are
\* grouped under source_file#chapter
RECURSIVE GroupByChapter(_, _, _)
GroupByChapter(chapter_scores, results, i) ==
    IF i > Len(results) THEN chapter_scores
    ELSE GroupByChapter(
            IF ChapterName(results[i].metadata) = None THEN chapter_scores
            ELSE AddToChapter(chapter_scores,
                              ChapterKey(SourceFileOr(results[i].metadata),
                                         ChapterName(results[i].metadata)[1]),
                              results[i]),
            results, i + 1)

\* metadata.get("section").or_else(|| metadata.get("source_file"))
\*     .unwrap_or_else(|| "Unknown Section")
SectionOrFile(metadata) ==
    IF metadata.section # None THEN metadata.section[1]
    ELSE IF metadata.source_file # None THEN metadata.source_file[1]
    ELSE StrUnknownSection

\* The fallback loop of search_chapters
RECURSIVE GroupBySectionOrFile(_, _, _)
GroupBySectionOrFile(chapter_scores, results, i) ==
    IF i > Len(results) THEN chapter_scores
    ELSE GroupBySectionOrFile(
            AddToChapter(chapter_scores,
                         ChapterKey(SourceFileOr(results[i].metadata),
                                    SectionOrFile(results[i].metadata)),
                         results[i]),
            results, i + 1)

\* The map chapter_scores of search_chapters when its loops are done
ChapterScores(chunk_results, top_k) ==
    IF DOMAIN GroupByChapter(<<>>, chunk_results, 1) = {}
    THEN GroupBySectionOrFile(<<>>, Take(chunk_results, top_k * 2), 1)
    ELSE GroupByChapter(<<>>, chunk_results, 1)

\* str::split('#'): the parts between the separators, at least one
RECURSIVE SplitFrom(_, _, _)
SplitFrom(text, separator, current) ==
    IF text = <<>> THEN <<current>>
    ELSE IF Head(text) = separator
         THEN <<current>> \o SplitFrom(Tail(text), separator, <<>>)
         ELSE SplitFrom(Tail(text), separator, Append(current, Head(text)))

\* The JSON value search_chapters returns for a group
ChapterValue(parts, entry) ==
    [chapter |-> IF Len(parts) >= 2 THEN parts[2] ELSE StrUnknown,
     file |-> parts[1],
     score |-> IF entry.chunks = <<>> THEN <<0, 1>> ELSE Norm(<<entry.score, Len(entry.chunks)>>),
     total_score |-> entry.score,
     chunk_count |-> Len(entry.chunks),
     chunks |-> entry.chunks]

\* The groups of chapter_scores in the order the map is iterated in, sorted
\* by their summed score and cut to top_k
SortedChapters(chapter_scores, order, top_k) ==
    Take(SortByScoreDescending([i \in 1..Len(order) |->
            [key |-> order[i], score |-> chapter_scores[order[i]].score]]), top_k)

\* McpServer::search_chapters on the results of search_chunks(query, top_k * 5)
search_chapters(chunk_results, top_k, order) ==
    [i \in 1..Min(top_k, Len(order)) |->
        ChapterValue(SplitFrom(SortedChapters(ChapterScores(chunk_results, top_k), order, top_k)[i].key,
                               "#", <<>>),
                     ChapterScores(chunk_results, top_k)[
                        SortedChapters(ChapterScores(chunk_results, top_k), order, top_k)[i].key])]

-----------------------------------------------------------------------------
(* Searches on a storage that holds a few chunks                           *)

MaxSearchTopK == 3
MaxChapterTopK == 2

\* The scores of the vector search and of the text search
VectorScores == {2, 3}
TextScores == {1, 3}

FileSharp == <<"c", "#", ".", "m", "d">>
ChapterSharp == <<"C", "#", " ", "1">>
SectionOne == <<"S", "1">>

\* A stored chunk as the searches see it
StoredHit(n, source_file, chapter, section) ==
    [id |-> Uuid(n), content |-> <<"x">> \o Decimal(n),
     metadata |-> MetadataMap(Some(source_file), chapter, section)]

\* What the storage holds: chunks without chapter and section; chunks with
\* chapters and sections; files and headings with a '#' in them
Corpora ==
    {<<StoredHit(1, FileA, None, None), StoredHit(2, FileB, None, None)>>,
     <<StoredHit(1, FileA, None, None), StoredHit(2, FileA, None, None),
       StoredHit(3, FileB, None, None)>>,
     <<StoredHit(1, FileA, Some(ChapterOne), None), StoredHit(2, FileA, Some(ChapterOne), Some(SectionOne)),
       StoredHit(3, FileB, None, Some(SectionOne))>>,
     <<StoredHit(1, FileSharp, Some(ChapterOne), None), StoredHit(2, FileA, Some(ChapterSharp), None)>>,
     <<StoredHit(1, <<"a">>, Some(<<"b", "#", "c">>), None), StoredHit(2, <<"a", "#", "b">>, Some(<<"c">>), None)>>}

SrInit ==
    /\ sr_stored \in Corpora
    /\ sr_call = None
SrIdle ==
    /\ sr_stored = <<>>
    /\ sr_call = None

\* The answers of the storage to a search_chunks call: the text search is
\* only called when the vector search found fewer than top_k results
TextAnswers(similar, top_k) ==
    IF Len(similar) < top_k THEN search_by_text(sr_stored, TextScores, top_k) ELSE {<<>>}

\* The search_knowledge_chunk tool
SearchChunks(top_k) ==
    \E similar \in search_similar(sr_stored, VectorScores, top_k * 2) :
        \E by_text \in TextAnswers(similar, top_k) :
            /\ sr_call' = Some([op |-> "search_chunks", top_k |-> top_k,
                                similar |-> similar, by_text |-> by_text,
                                results |-> search_chunks(similar, by_text, top_k)])
            /\ UNCHANGED sr_stored

\* The search_knowledge_chapter tool, the map being iterated in the order `order`
ChaptersOf(top_k, chunk_results) ==
    \E order \in Orders(DOMAIN ChapterScores(chunk_results, top_k)) :
        /\ sr_call' = Some([op |-> "search_chapters", top_k |-> top_k,
                            chunk_results |-> chunk_results,
                            results |-> search_chapters(chunk_results, top_k, order)])
        /\ UNCHANGED sr_stored

SearchChapters(top_k) ==
    \E similar \in search_similar(sr_stored, VectorScores, top_k * 5 * 2) :
        \E by_text \in TextAnswers(similar, top_k * 5) :
            ChaptersOf(top_k, search_chunks(similar, by_text, top_k * 5))

\* One search is made on each storage
SrNext ==
    /\ sr_call = None
    /\ \/ \E top_k \in 0..MaxSearchTopK : SearchChunks(top_k)
       \/ \E top_k \in 0..MaxChapterTopK : SearchChapters(top_k)

-----------------------------------------------------------------------------
(* Specifications                                                          *)

SpecBm25Init == Bm25Init /\ TokIdle /\ EnhIdle /\ RrIdle /\ CkIdle /\ GrIdle /\ AnIdle /\ RrfIdle /\ StoreIdle /\ SrvIdle /\ SrIdle
SpecBm25Next == Bm25Next /\ UNCHANGED <<tokVars, enhVars, rrVars, ckVars, grVars, anVars, rrfVars, storeVars, srvVars, searchVars>>
SpecBm25 == SpecBm25Init /\ [][SpecBm25Next]_vars

SpecTokInit == TokInit /\ Bm25Init /\ EnhIdle /\ RrIdle /\ CkIdle /\ GrIdle /\ AnIdle /\ RrfIdle /\ StoreIdle /\ SrvIdle /\ SrIdle
SpecTokNext == Tokenize /\ UNCHANGED <<bm25Vars, enhVars, rrVars, ckVars, grVars, anVars, rrfVars, storeVars, srvVars, searchVars>>
SpecTok == SpecTokInit /\ [][SpecTokNext]_vars

SpecEnhInit == EnhInit /\ Bm25Init /\ TokIdle /\ RrIdle /\ CkIdle /\ GrIdle /\ AnIdle /\ RrfIdle /\ StoreIdle /\ SrvIdle /\ SrIdle
SpecEnhNext == Enhance /\ UNCHANGED <<bm25Vars, tokVars, rrVars, ckVars, grVars, anVars, rrfVars, storeVars, srvVars, searchVars>>
SpecEnh == SpecEnhInit /\ [][SpecEnhNext]_vars

SpecRrInit == RrInit /\ Bm25Init /\ TokIdle /\ EnhIdle /\ CkIdle /\ GrIdle /\ AnIdle /\ RrfIdle /\ StoreIdle /\ SrvIdle /\ SrIdle
SpecRrNext == Rerank /\ UNCHANGED <<bm25Vars, tokVars, enhVars, ckVars, grVars, anVars, rrfVars, storeVars, srvVars, searchVars>>
SpecRr == SpecRrInit /\ [][SpecRrNext]_vars

SpecChunkInit == CkInit /\ Bm25Init /\ TokIdle /\ EnhIdle /\ RrIdle /\ GrIdle /\ AnIdle /\ RrfIdle /\ StoreIdle /\ SrvIdle /\ SrIdle
SpecChunkNext == CkNext /\ UNCHANGED <<bm25Vars, tokVars, enhVars, rrVars, grVars, anVars, rrfVars, storeVars, srvVars, searchVars>>
SpecChunk == SpecChunkInit /\ [][SpecChunkNext]_vars

SpecGraphInit == GrInit /\ Bm25Init /\ TokIdle /\ EnhIdle /\ RrIdle /\ CkIdle /\ AnIdle /\ RrfIdle /\ StoreIdle /\ SrvIdle /\ SrIdle
SpecGraphNext == GrNext /\ UNCHANGED <<bm25Vars, tokVars, enhVars, rrVars, ckVars, anVars, rrfVars, storeVars, srvVars, searchVars>>
SpecGraph == SpecGraphInit /\ [][SpecGraphNext]_vars

SpecPathInit == AnInit /\ Bm25Init /\ TokIdle /\ EnhIdle /\ RrIdle /\ CkIdle /\ GrIdle /\ RrfIdle /\ StoreIdle /\ SrvIdle /\ SrIdle
SpecPathNext == AnNext /\ UNCHANGED <<bm25Vars, tokVars, enhVars, rrVars, ckVars, grVars, rrfVars, storeVars, srvVars, searchVars>>
SpecPath == SpecPathInit /\ [][SpecPathNext]_vars

SpecRrfInit == RrfInit /\ Bm25Init /\ TokIdle /\ EnhIdle /\ RrIdle /\ CkIdle /\ GrIdle /\ AnIdle /\ StoreIdle /\ SrvIdle /\ SrIdle
SpecRrfNext == RrfNext /\ UNCHANGED <<bm25Vars, tokVars, enhVars, rrVars, ckVars, grVars, anVars, storeVars, srvVars, searchVars>>
SpecRrf == SpecRrfInit /\ [][SpecRrfNext]_vars

SpecStoreInit == StoreInit /\ Bm25Init /\ TokIdle /\ EnhIdle /\ RrIdle /\ CkIdle /\ GrIdle /\ AnIdle /\ RrfIdle /\ SrvIdle /\ SrIdle
SpecStoreNext == StoreNext /\ UNCHANGED <<bm25Vars, tokVars, enhVars, rrVars, ckVars, grVars, anVars, rrfVars, srvVars, searchVars>>
SpecStore == SpecStoreInit /\ [][SpecStoreNext]_vars

SpecRebuildInit == SpecGraphInit
SpecRebuildNext == GrRebuildNext /\ UNCHANGED <<bm25Vars, tokVars, enhVars, rrVars, ckVars, anVars, rrfVars, storeVars, srvVars, searchVars>>
SpecRebuild == SpecRebuildInit /\ [][SpecRebuildNext]_vars

SpecRelatedInit == SpecGraphInit
SpecRelatedNext == GrQueryNext /\ UNCHANGED <<bm25Vars, tokVars, enhVars, rrVars, ckVars, anVars, rrfVars, storeVars, srvVars, searchVars>>
SpecRelated == SpecRelatedInit /\ [][SpecRelatedNext]_vars

SpecServerInit == SrvInit /\ SrvChunker /\ GrIdle /\ Bm25Init /\ TokIdle /\ EnhIdle /\ RrIdle /\ AnIdle /\ RrfIdle /\ StoreIdle /\ SrIdle
SpecServerNext == SrvNext /\ UNCHANGED <<bm25Vars, tokVars, enhVars, rrVars, max_chunk_size, min_chunk_size, overlap_tokens, ck_call, anVars, rrfVars, storeVars, searchVars>>
SpecServer == SpecServerInit /\ [][SpecServerNext]_vars

SpecSearchInit == SrInit /\ Bm25Init /\ TokIdle /\ EnhIdle /\ RrIdle /\ CkIdle /\ GrIdle /\ AnIdle /\ RrfIdle /\ StoreIdle /\ SrvIdle
SpecSearchNext == SrNext /\ UNCHANGED <<bm25Vars, tokVars, enhVars, rrVars, ckVars, grVars, anVars, rrfVars, storeVars, srvVars>>
SpecSearch == SpecSearchInit /\ [][SpecSearchNext]_vars

-----------------------------------------------------------------------------
(* Claims about the BM25 index and its tokenizer                           *)

\* A document "contains" a term when the term is one of its tokens.
DocHasTerm(content, term) == Has(tokenize(content), term)
DocHasQueryTerm(content, query) ==
    \E i \in 1..Len(tokenize(query)) : DocHasTerm(content, tokenize(query)[i])

\* C1: after exactly two index_document calls, one document holding the token
\* uvm_config_db and one not, search("uvm_config_db", both documents, top_k >= 1)
\* returns a non-empty list headed by the holding document with score > 0.
C1_HolderRankedFirst ==
    (/\ bm25_results # None
     /\ total_docs = 2
     /\ bm25_results[1].docs = documents
     /\ bm25_results[1].query = TermConfigDb
     /\ bm25_results[1].top_k >= 1
     /\ \E i \in 1..2 : /\ DocHasTerm(documents[i][2], TermConfigDb)
                        /\ ~DocHasTerm(documents[3 - i][2], TermConfigDb))
    => /\ bm25_results[1].results # <<>>
       /\ DocHasTerm(bm25_results[1].results[1].content, TermConfigDb)
       /\ bm25_results[1].results[1].score > 0

\* C2: whatever was indexed, a candidate's score is 0 when no query token occurs
\* in it and strictly positive when one does, so a search whose top_k covers
\* all candidates returns every candidate that holds a query term.
C2_ScorePositiveIffTermOccurs ==
    bm25_results # None =>
        LET r == bm25_results[1]
        IN  /\ \A i \in 1..Len(r.docs) :
                 IF DocHasQueryTerm(r.docs[i][2], r.query)
                 THEN r.scores[i] > 0
                 ELSE r.scores[i] = 0
            /\ r.top_k >= Len(r.docs) =>
                 \A i \in 1..Len(r.docs) :
                    DocHasQueryTerm(r.docs[i][2], r.query) =>
                        \E j \in 1..Len(r.results) : r.results[j].chunk_id = r.docs[i][1]

\* The maximal runs of alphanumeric/underscore characters of a text
RECURSIVE IdentifierRunsFrom(_, _)
IdentifierRunsFrom(text, cur) ==
    IF text = <<>> THEN (IF cur = <<>> THEN {} ELSE {cur})
    ELSE IF IsAlphanumeric(Head(text)) \/ Head(text) = "_"
         THEN IdentifierRunsFrom(Tail(text), Append(cur, Head(text)))
         ELSE (IF cur = <<>> THEN {} ELSE {cur}) \cup IdentifierRunsFrom(Tail(text), <<>>)

IdentifierRuns(text) == IdentifierRunsFrom(text, <<>>)

\* C3: every maximal alphanumeric/underscore run of length > 2 of the text is,
\* lowercased, a token of tokenize(text), also when punctuation joins it to
\* another run; so tokenize("uvm_config_db::get() is a method") holds
\* uvm_config_db, get and method.
C3_IdentifierRunsAreTokens ==
    tok_out # None =>
        \A run \in IdentifierRuns(tok_text) :
            Len(run) > 2 => Has(tok_out[1], ToLowercase(run))

-----------------------------------------------------------------------------
(* Claims about the query enhancer                                         *)

\* C4: enhance("what is uvm config db") has intent Concept, an enhanced string
\* holding the expanded abbreviation (configuration_database) and the injected
\* synonym uvm_config_db, and a non-empty domain-term list; and any query that
\* matches only the concept indicators is classified Concept.
C4_WhatIsUvmConfigDb ==
    enh_out # None =>
        /\ enh_query = QueryWhatIsUvmConfigDb =>
              /\ enh_out[1].intent = "Concept"
              /\ Contains(enh_out[1].enhanced, StrConfigurationDatabase)
              /\ Contains(enh_out[1].enhanced, WordUvmConfigDb)
              /\ enh_out[1].uvm_terms # <<>>
        /\ LET expanded == expand_abbreviations(ToLowercase(enh_query),
                                                [k \in 1..Len(abbreviations) |-> k])
           IN  (/\ AnyIndicator(expanded, concept_indicators)
                /\ ~AnyIndicator(expanded, code_indicators)
                /\ ~Contains(expanded, StrConfig) /\ ~Contains(expanded, StrSetup))
               => enh_out[1].intent = "Concept"

-----------------------------------------------------------------------------
(* Claims about the diversity reranker                                     *)

ScoresNonIncreasing(results) ==
    \A i \in 1..(Len(results) - 1) : results[i].score >= results[i + 1].score

\* C5 as stated: for every input list, sorted or not, with any scores,
\* rerank_with_diversity(results, 0) returns the results in the input order.
C5_AnyInputKept ==
    (rr_out # None /\ rr_factor = <<0, 1>>) => rr_out[1] = rr_results

\* C5 amended: for every input list whose scores are in non-increasing order,
\* rerank_with_diversity(results, 0) returns the results in the input order.
C5_SortedInputKept ==
    (rr_out # None /\ rr_factor = <<0, 1>> /\ ScoresNonIncreasing(rr_results))
    => rr_out[1] = rr_results

\* C5 witness: a sorted list of three results with a tie was reranked with
\* diversity_factor 0.
C5_Witness ==
    /\ rr_out # None /\ rr_factor = <<0, 1>>
    /\ Len(rr_results) = 3
    /\ rr_results[1].score > rr_results[2].score
    /\ rr_results[2].score = rr_results[3].score
    /\ rr_results[3].score > 0
    /\ rr_out[1] = rr_results

-----------------------------------------------------------------------------
(* Claims about the chunkers                                               *)

\* C6: every chunk returned by chunk_text except the last has a content
\* length (in bytes) of at least min_chunk_size and at most max_chunk_size,
\* whatever the text and the chunker's configuration.
C6_NonLastChunksWithinBounds ==
    (ck_call # None /\ ck_call[1].op = "chunk_text")
    => \A k \in 1..(Len(ck_call[1].chunks) - 1) :
          /\ StrLen(ck_call[1].chunks[k].content) >= min_chunk_size
          /\ StrLen(ck_call[1].chunks[k].content) <= max_chunk_size

\* The last character of a text that is not whitespace, 0 if there is none
LastNonBlank(text) ==
    IF \E i \in 1..Len(text) : ~IsWhitespace(text[i])
    THEN CHOOSE i \in 1..Len(text) :
            ~IsWhitespace(text[i]) /\ \A j \in (i + 1)..Len(text) : IsWhitespace(text[j])
    ELSE 0

\* A text is blank, or ends in a sentence terminator followed by whitespace
\* that is more than one single space.
EndsInLooseWhitespace(text) ==
    LET k == LastNonBlank(text)
    IN  \/ k = 0
        \/ /\ k < Len(text)
           /\ text[k] \in {".", "!", "?"}
           /\ \/ text[k + 1] \in {"\n", "\t"}
              \/ (text[k + 1] = " " /\ k + 1 < Len(text))

InRange(text) == StrLen(text) >= min_chunk_size /\ StrLen(text) <= max_chunk_size

\* C7 as stated: for any text whose length is at least min_chunk_size and at
\* most max_chunk_size, trailing or inter-sentence whitespace included,
\* chunk_text returns exactly one chunk and its content is the full input.
C7_InRangeTextIsOneChunk ==
    (ck_call # None /\ ck_call[1].op = "chunk_text" /\ InRange(ck_call[1].input))
    => /\ Len(ck_call[1].chunks) = 1
       /\ ck_call[1].chunks[1].content = ck_call[1].input

\* C7 as amended: for any text whose length in bytes is at least
\* min_chunk_size and at most max_chunk_size, that is not blank and does not
\* end in a sentence terminator followed by whitespace other than one single
\* space, chunk_text returns exactly one chunk and its content is the full
\* input, inter-sentence whitespace included.
C7_InRangeTextKeptWhole ==
    (/\ ck_call # None /\ ck_call[1].op = "chunk_text"
     /\ InRange(ck_call[1].input)
     /\ ~EndsInLooseWhitespace(ck_call[1].input))
    => /\ Len(ck_call[1].chunks) = 1
       /\ ck_call[1].chunks[1].content = ck_call[1].input

\* A text of several sentences with whitespace between them and a trailing
\* space, in range, returned as one chunk
C7_Witness ==
    /\ ck_call # None /\ ck_call[1].op = "chunk_text"
    /\ InRange(ck_call[1].input)
    /\ ~EndsInLooseWhitespace(ck_call[1].input)
    /\ Len(split_sentences(ck_call[1].input)) >= 2
    /\ ck_call[1].input[Len(ck_call[1].input)] = " "
    /\ \E i \in 1..Len(ck_call[1].input) : ck_call[1].input[i] = "\n"
    /\ Len(ck_call[1].chunks) = 1
    /\ ck_call[1].chunks[1].content = ck_call[1].input

\* C8: in the chunk list produced for one source file by chunk_text, by
\* chunk_code or by the markdown processor, the start boundaries of
\* successive chunks are non-decreasing and each chunk's start is at most
\* its end.
C8_StartsNonDecreasing ==
    ck_call # None
    => \A k \in 1..Len(ck_call[1].chunks) :
          /\ ck_call[1].chunks[k].boundaries[1] <= ck_call[1].chunks[k].boundaries[2]
          /\ k > 1 => ck_call[1].chunks[k - 1].boundaries[1]
                         <= ck_call[1].chunks[k].boundaries[1]

-----------------------------------------------------------------------------
(* Claims about the relationship graph                                     *)

\* The edges the last build_relationships call added
AddedEdges == SubSeq(edges, gr_last[1].edges_before + 1, Len(edges))
AddedSequential == SelectSeq(AddedEdges, LAMBDA e : e.edge_type = "Sequential")

\* The chunk of the last batch with a given id (ids are distinct in a batch)
BatchChunkOf(id) ==
    gr_last[1].chunks[CHOOSE i \in 1..Len(gr_last[1].chunks) : gr_last[1].chunks[i].id = id]

FileMembers(file) ==
    {i \in 1..Len(gr_last[1].chunks) : gr_last[1].chunks[i].source_file = file}

DistinctStarts(members) ==
    \A i, j \in members :
        gr_last[1].chunks[i].boundaries[1] = gr_last[1].chunks[j].boundaries[1] => i = j

\* j is the chunk of the same file with the next larger start boundary after i
NextInFile(members, i, j) ==
    /\ j \in members
    /\ gr_last[1].chunks[i].boundaries[1] < gr_last[1].chunks[j].boundaries[1]
    /\ \A k \in members :
          gr_last[1].chunks[i].boundaries[1] < gr_last[1].chunks[k].boundaries[1]
          => gr_last[1].chunks[j].boundaries[1] <= gr_last[1].chunks[k].boundaries[1]

\* C9: whatever the order of the chunks in the batch, a source file with n
\* chunks of distinct start boundaries gets exactly n-1 Sequential edges from
\* the call, one from each chunk to the chunk with the next larger start
\* boundary, and no Sequential edge joins chunks of different files.
C9_SequentialEdgesFollowStarts ==
    gr_last # None =>
        /\ \A file \in SourceFiles(gr_last[1].chunks) :
              LET members == FileMembers(file)
                  ofFile == SelectSeq(AddedSequential,
                                LAMBDA e : BatchChunkOf(e.from).source_file = file)
              IN  DistinctStarts(members) =>
                    /\ Len(ofFile) = Cardinality(members) - 1
                    /\ \A k \in 1..Len(ofFile) :
                          \E i, j \in members :
                              /\ ofFile[k].from = gr_last[1].chunks[i].id
                              /\ ofFile[k].to = gr_last[1].chunks[j].id
                              /\ NextInFile(members, i, j)
                    /\ \A i, j \in members :
                          NextInFile(members, i, j) =>
                              \E k \in 1..Len(ofFile) :
                                  /\ ofFile[k].from = gr_last[1].chunks[i].id
                                  /\ ofFile[k].to = gr_last[1].chunks[j].id
        /\ \A k \in 1..Len(AddedSequential) :
              BatchChunkOf(AddedSequential[k].from).source_file
                  = BatchChunkOf(AddedSequential[k].to).source_file

\* A batch of three chunks of one file with boundaries (20,30), (0,10),
\* (10,20), in that order, after which the graph holds the two edges
\* (0,10) -> (10,20) and (10,20) -> (20,30)
C9_Witness ==
    /\ gr_last # None
    /\ Len(gr_last[1].chunks) = 3
    /\ \A i \in 1..3 : gr_last[1].chunks[i].source_file = FileA
    /\ gr_last[1].chunks[1].boundaries = <<20, 30>>
    /\ gr_last[1].chunks[2].boundaries = <<0, 10>>
    /\ gr_last[1].chunks[3].boundaries = <<10, 20>>
    /\ Len(AddedSequential) = 2
    /\ AddedSequential[1].from = gr_last[1].chunks[2].id
    /\ AddedSequential[1].to = gr_last[1].chunks[3].id
    /\ AddedSequential[2].from = gr_last[1].chunks[3].id
    /\ AddedSequential[2].to = gr_last[1].chunks[1].id

\* Two nodes are joined by an edge of the snapshot, in either direction
Joined(a, b) ==
    \E i \in 1..Len(an_edges) :
        \/ (an_edges[i].from = a /\ an_edges[i].to = b)
        \/ (an_edges[i].from = b /\ an_edges[i].to = a)

\* The nodes a chain of edges, taken as undirected, connects to a node
RECURSIVE ReachableFrom(_)
ReachableFrom(seen) ==
    LET more == seen \cup {n \in NodePool : \E s \in seen : Joined(s, n)}
    IN  IF more = seen THEN seen ELSE ReachableFrom(more)

Connected(a, b) == b \in ReachableFrom({a})

\* A path of the snapshot: consecutive nodes are joined by an edge
IsPath(path) == \A i \in 1..(Len(path) - 1) : Joined(path[i], path[i + 1])

\* The cheapest edge between two joined nodes costs 1/weight, as a quotient
\* <<num, den>>
StepCost(a, b) ==
    LET costs == {<<an_edges[i].weight[2], an_edges[i].weight[1]>> :
                    i \in {j \in 1..Len(an_edges) :
                            \/ (an_edges[j].from = a /\ an_edges[j].to = b)
                            \/ (an_edges[j].from = b /\ an_edges[j].to = a)}}
    IN  CHOOSE c \in costs : \A d \in costs : c[1] * d[2] <= d[1] * c[2]

RECURSIVE PathCost(_)
PathCost(path) ==
    IF Len(path) < 2 THEN <<0, 1>>
    ELSE LET step == StepCost(path[1], path[2])
             rest == PathCost(Tail(path))
         IN  <<step[1] * rest[2] + rest[1] * step[2], step[2] * rest[2]>>

\* The paths without repeated nodes from a to b
SimplePaths(a, b) ==
    {p \in UNION {[1..n -> NodePool] : n \in 1..Cardinality(NodePool)} :
        /\ p[1] = a /\ p[Len(p)] = b
        /\ \A i, j \in 1..Len(p) : p[i] = p[j] => i = j
        /\ IsPath(p)}

\* C10: on a snapshot with positive edge weights, find_shortest_path(from, to)
\* returns [from] when from = to, returns none exactly when no chain of edges
\* (taken as undirected) connects from and to, and otherwise returns a path
\* from `from` to `to` whose consecutive nodes are joined by an edge and whose
\* total cost, each edge costing 1/weight, is the least possible.
C10_ShortestPath ==
    an_call # None =>
        LET from == an_call[1].from
            to == an_call[1].to
            found == an_call[1].path
        IN  /\ from = to => found = Some(<<from>>)
            /\ (found = None) <=> ~Connected(from, to)
            /\ found # None =>
                  /\ found[1][1] = from
                  /\ found[1][Len(found[1])] = to
                  /\ IsPath(found[1])
                  /\ \A p \in SimplePaths(from, to) :
                        PathCost(found[1])[1] * PathCost(p)[2]
                            <= PathCost(p)[1] * PathCost(found[1])[2]

\* A call between two nodes joined by an edge, answered with a longer but
\* cheaper path through a third node
C10_Witness ==
    /\ an_call # None
    /\ an_call[1].from # an_call[1].to
    /\ Joined(an_call[1].from, an_call[1].to)
    /\ an_call[1].path # None
    /\ Len(an_call[1].path[1]) = 3
    /\ IsPath(an_call[1].path[1])

-----------------------------------------------------------------------------
(* Claims about reciprocal-rank fusion                                     *)

\* The sum, over the occurrences of id in a ranked list from position i on,
\* of weight / (60 + rank + 1)
RECURSIVE RankSumFrom(_, _, _, _)
RankSumFrom(results, i, id, weight) ==
    IF i > Len(results) THEN <<0, 1>>
    ELSE LET rest == RankSumFrom(results, i + 1, id, weight)
         IN  IF results[i].chunk_id = id
             THEN RAdd(rest, RMul(weight, <<1, 60 + (i - 1) + 1>>))
             ELSE rest

FusedScore(call, id) ==
    RAdd(RankSumFrom(call.semantic_results, 1, id, semantic_weight),
         RankSumFrom(call.keyword_results, 1, id, keyword_weight))

Occurrences(results, id) == Cardinality({i \in 1..Len(results) : results[i].chunk_id = id})
RankedFirst(results, id) == Len(results) > 0 /\ results[1].chunk_id = id
SameRational(p, q) == p[1] * q[2] = q[1] * p[2]

\* C11: the output of merge_with_rrf holds every chunk id at most once, each
\* with the sum over both lists of weight / (60 + rank + 1) over all its
\* occurrences, with the semantic entry's metadata when the id is in both
\* lists; it is sorted by score descending and holds the top_k best ids.
\* With equal weights a chunk ranked first in both lists scores at least
\* 2w/61, strictly more than a chunk ranked first in only one list.
C11_FusedScoresAreRankSums ==
    rrf_call # None =>
        LET call == rrf_call[1]
            out == call.out
            ids == ChunkIdsOf(call.semantic_results) \cup ChunkIdsOf(call.keyword_results)
            kept == {out[p].chunk_id : p \in 1..Len(out)}
            twice_first == RMul(semantic_weight, <<2, 61>>)
        IN  /\ \A p, q \in 1..Len(out) : p # q => out[p].chunk_id # out[q].chunk_id
            /\ kept \subseteq ids
            /\ Len(out) = IF call.top_k < Cardinality(ids) THEN call.top_k ELSE Cardinality(ids)
            /\ \A p \in 1..Len(out) :
                /\ SameRational(out[p].score, FusedScore(call, out[p].chunk_id))
                /\ out[p].metadata.list =
                       IF out[p].chunk_id \in ChunkIdsOf(call.semantic_results)
                       THEN "semantic" ELSE "keyword"
            /\ \A p \in 1..Len(out) - 1 : ~RLess(out[p].score, out[p + 1].score)
            /\ \A id \in ids \ kept : \A p \in 1..Len(out) :
                ~RLess(out[p].score, FusedScore(call, id))
            /\ semantic_weight = keyword_weight =>
                \A p \in 1..Len(out) :
                    LET id == out[p].chunk_id
                        first_s == RankedFirst(call.semantic_results, id)
                        first_k == RankedFirst(call.keyword_results, id)
                    IN  /\ (first_s /\ first_k) => ~RLess(out[p].score, twice_first)
                        /\ (first_s # first_k
                            /\ Occurrences(call.semantic_results, id) <= 1
                            /\ Occurrences(call.keyword_results, id) <= 1)
                           => RLess(out[p].score, twice_first)

-----------------------------------------------------------------------------
(* Claims about the markdown chunker                                       *)

HeadingStarts(events) == {i \in 1..Len(events) : events[i].event = "Start(Heading)"}
HeadingEnds(events) == {i \in 1..Len(events) : events[i].event = "End(Heading)"}

\* The text the events lo..hi contribute: Text and Code events their text,
\* and, outside headings, each break a newline
RECURSIVE EventText(_, _, _, _)
EventText(events, lo, hi, breaks) ==
    IF lo > hi THEN <<>>
    ELSE (CASE events[lo].event \in {"Text", "Code"} -> events[lo].text
            [] events[lo].event \in {"SoftBreak", "HardBreak"} /\ breaks -> <<"\n">>
            [] OTHER -> <<>>)
         \o EventText(events, lo + 1, hi, breaks)

\* The heading that ends at event e: its level and its text
HeadingAt(events, e) ==
    LET s == CHOOSE i \in HeadingStarts(events) :
                 i < e /\ \A j \in HeadingStarts(events) : j < e => j <= i
    IN  [text |-> EventText(events, s + 1, e - 1, FALSE), level |-> events[s].level]

\* The headings in effect after the heading that ends at e: the headings up
\* to e that no later heading up to e of the same or a higher rank follows
InEffect(events, e) ==
    {k \in HeadingEnds(events) :
        /\ k <= e
        /\ \A j \in HeadingEnds(events) :
            (k < j /\ j <= e) => HeadingAt(events, j).level > HeadingAt(events, k).level}

Eligible(h) ==
    \/ h.level = 1
    \/ /\ h.level = 2
       /\ \/ Contains(ToLowercase(h.text), <<"c", "h", "a", "p", "t", "e", "r">>)
          \/ is_numbered_section(h.text)

\* <<chapter, section>> of text that follows the heading ending at e (e = 0:
\* text before the first heading)
TagsAfter(events, e) ==
    IF e = 0 THEN <<None, None>>
    ELSE LET stack == InEffect(events, e)
             eligible == {k \in stack : Eligible(HeadingAt(events, k))}
             pick == IF eligible = {}
                     THEN CHOOSE k \in stack : \A j \in stack : k <= j
                     ELSE CHOOSE k \in eligible : \A j \in eligible : j <= k
         IN  <<Some(HeadingAt(events, pick).text), Some(HeadingAt(events, e).text)>>

\* The chunks expected of the text between the heading ending at e and the
\* next heading, and of all text after it
RECURSIVE TaggedFrom(_, _)
TaggedFrom(events, e) ==
    LET later == {i \in HeadingStarts(events) : i > e}
        next == IF later = {} THEN Len(events) + 1
                ELSE CHOOSE i \in later : \A j \in later : i <= j
        body == EventText(events, e + 1, next - 1, TRUE)
        tags == TagsAfter(events, e)
        chunks == IF body = <<>> THEN <<>> ELSE chunk_text(body, "a.md")
        here == [k \in 1..Len(chunks) |->
                    [content |-> chunks[k].content, chapter |-> tags[1], section |-> tags[2]]]
    IN  IF later = {} THEN here
        ELSE here \o TaggedFrom(events,
                 CHOOSE i \in HeadingEnds(events) :
                     i > next /\ \A j \in HeadingEnds(events) : j > next => i <= j)

StrChapter1 == <<"C", "h", "a", "p", "t", "e", "r", " ", "1">>
StrIntro == <<"I", "n", "t", "r", "o">>

\* A document of the form  # Chapter 1, ## Intro, body text
ChapterIntroBody(events) ==
    /\ Len(events) > 6
    /\ SubSeq(events, 1, 6) = Heading(1, StrChapter1) \o Heading(2, StrIntro)
    /\ HeadingStarts(events) = {1, 4}

\* C12: every chunk of a markdown document carries the chapter and section
\* of the headings that precede its text: section is the deepest heading in
\* effect, chapter the deepest chapter-like heading in effect (the top-most
\* heading when none is chapter-like); text before the first heading has
\* neither, and the body of  # Chapter 1, ## Intro  has chapter "Chapter 1"
\* and section "Intro".
C12_ChunksTaggedByPrecedingHeadings ==
    (ck_call # None /\ ck_call[1].op = "extract_and_chunk") =>
        LET events == ck_call[1].input
            chunks == ck_call[1].chunks
            expected == TaggedFrom(events, 0)
        IN  /\ Len(chunks) = Len(expected)
            /\ \A k \in 1..Len(chunks) :
                /\ chunks[k].content = expected[k].content
                /\ chunks[k].chapter = expected[k].chapter
                /\ chunks[k].section = expected[k].section
            /\ ChapterIntroBody(events) =>
                \A k \in 1..Len(chunks) :
                    /\ chunks[k].chapter = Some(StrChapter1)
                    /\ chunks[k].section = Some(StrIntro)
            /\ HeadingStarts(events) = {} =>
                \A k \in 1..Len(chunks) :
                    chunks[k].chapter = None /\ chunks[k].section = None

\* A document  # Chapter 1, ## Intro, body  whose body gave a chunk
C12_Witness ==
    /\ ck_call # None
    /\ ck_call[1].op = "extract_and_chunk"
    /\ ChapterIntroBody(ck_call[1].input)
    /\ Len(ck_call[1].chunks) > 0
    /\ ck_call[1].chunks[1].section = Some(StrIntro)

-----------------------------------------------------------------------------
(* Claims about chunk storage                                              *)

\* The chunks a tree holds
StoredIn(tree) == {tree[id] : id \in DOMAIN tree}

\* What a store call that finds the chunks of before and leaves those of
\* after must do: report duplicate and change nothing when a stored chunk
\* has the same content, else succeed and make the chunk retrievable
Deduplicates(before, after, call) ==
    IF \E stored \in StoredIn(before) : stored.content = call.chunk.content
    THEN call.result = "duplicate" /\ after = before
    ELSE /\ call.result = "success"
         /\ ContainsKey(after, call.chunk.id)
         /\ after[call.chunk.id] = call.chunk

\* C13: every store call, on the ChunkStore and on the Storage, reports
\* duplicate and leaves the stored chunks unchanged when a stored chunk has
\* byte-identical content, whatever its id, and otherwise succeeds and makes
\* the chunk retrievable by its id.
C13_StoreDeduplicatesByContent ==
    [][/\ (store_call' # None /\ store_call'[1].op = "ChunkStore::store")
            => Deduplicates(db, db', store_call'[1])
       /\ (store_call' # None /\ store_call'[1].op = "Storage::store_chunk")
            => Deduplicates(chunk_store, chunk_store', store_call'[1])]_vars

-----------------------------------------------------------------------------
(* Claims about the cumulative graph                                       *)

IsPrefixOf(s, t) == Len(s) <= Len(t) /\ SubSeq(t, 1, Len(s)) = s

Copies(s, e) == Cardinality({i \in 1..Len(s) : s[i] = e})
SameMultiset(s, t) ==
    /\ Len(s) = Len(t)
    /\ \A e \in Range(s) \cup Range(t) : Copies(s, e) = Copies(t, e)

\* C18: a build_relationships call keeps the edges it finds, in order, as a
\* prefix of the edge list and removes no node; on the batch of the previous
\* call it adds no node id and appends, once more, the edges that the
\* previous call appended.
C18_GraphIsAppendOnly ==
    [][/\ IsPrefixOf(edges, edges')
       /\ DOMAIN nodes \subseteq DOMAIN nodes'
       /\ (gr_last # None /\ gr_last' # None /\ gr_last'[1].chunks = gr_last[1].chunks)
            => /\ DOMAIN nodes' = DOMAIN nodes
               /\ SameMultiset(SubSeq(edges', Len(edges) + 1, Len(edges')),
                               SubSeq(edges, gr_last[1].edges_before + 1, Len(edges)))]_vars

\* A batch with edges of every kind that was built twice
C18_Witness ==
    /\ gr_last # None
    /\ gr_last[1].repeats = 1
    /\ Len(gr_last[1].chunks) = 2
    /\ \A edge_type \in {"Similarity", "Contains", "PartOf", "Sequential"} :
        Cardinality({i \in gr_last[1].edges_before + 1..Len(edges) :
                        edges[i].edge_type = edge_type}) > 0
    /\ Len(edges) = 2 * (Len(edges) - gr_last[1].edges_before)

-----------------------------------------------------------------------------
(* Claims about find_related_chunks                                        *)

\* Some edge joins a and b, in either direction
Linked(a, b) ==
    \E i \in 1..Len(edges) :
        \/ (edges[i].from = a /\ edges[i].to = b)
        \/ (edges[i].from = b /\ edges[i].to = a)

GraphIds == DOMAIN nodes \cup {edges[i].from : i \in 1..Len(edges)}
                         \cup {edges[i].to : i \in 1..Len(edges)}

\* The ids within k hops of a set of ids
RECURSIVE WithinHops(_, _)
WithinHops(S, k) ==
    IF k = 0 THEN S
    ELSE WithinHops(S \cup {n \in GraphIds : \E m \in S : Linked(m, n)}, k - 1)

IsChunkNode(id) == ContainsKey(nodes, id) /\ nodes[id].node_type = "Chunk"

\* C19: find_related_chunks(id, max_depth) returns, each once, exactly the
\* Chunk nodes other than id within max_depth hops of id over the edges taken
\* as undirected, a hop passing through a node of any kind; max_depth = 0
\* gives the empty list.
C19_RelatedAreChunksWithinDepth ==
    gr_related # None =>
        LET call == gr_related[1]
        IN  /\ Range(call.related) =
                   {n \in WithinHops({call.chunk_id}, call.max_depth) \ {call.chunk_id} :
                        IsChunkNode(n)}
            /\ \A i, j \in 1..Len(call.related) :
                call.related[i] = call.related[j] => i = j
            /\ call.max_depth = 0 => call.related = <<>>

-----------------------------------------------------------------------------
(* Claims about the tools/call handler and the server                      *)

IsString(value) == value # None /\ value[1][1] = "string"
NamedTool(request, name) == request.map /\ request.name = Some(JsonString(name))
SearchTools == {"search_knowledge_chunk", "search_knowledge_chapter"}

\* A request for ingest without a string path, for a search tool without a
\* string query, or naming a tool the server does not have
Malformed(request) ==
    \/ NamedTool(request, "ingest") /\ ~IsString(request.path)
    \/ \E name \in SearchTools : NamedTool(request, name) /\ ~IsString(request.query)
    \/ /\ request.map
       /\ IsString(request.name)
       /\ request.name[1][2] \notin SearchTools \cup {"ingest"}

\* Task t takes its request in this step
Arrives(t) == tasks[t].pc = "idle" /\ tasks'[t].pc # "idle"

\* C14: a tools/call request for ingest without a string path, for a search
\* tool without a string query, or for an unknown tool is answered with an
\* invalid-params error in the step it arrives in; no server method is
\* invoked for it, and the step leaves the storage contents and the nodes and
\* edges of the graph as they were.
C14_MalformedRequestsAreRejected ==
    [][\A t \in Tasks :
          (Arrives(t) /\ Malformed(tasks'[t].request[1])) =>
              /\ tasks'[t].pc = "done"
              /\ tasks'[t].response # None
              /\ tasks'[t].response[1].kind = "invalid_params"
              /\ tasks'[t].invoked = None
              /\ storage' = storage
              /\ nodes' = nodes
              /\ edges' = edges]_vars

\* A malformed ingest request was rejected after a document had been ingested
C14_Witness ==
    /\ storage # <<>>
    /\ edges # <<>>
    /\ \E t \in Tasks :
          /\ tasks[t].pc = "done"
          /\ tasks[t].request # None
          /\ Malformed(tasks[t].request[1])
          /\ NamedTool(tasks[t].request[1], "ingest")
          /\ tasks[t].response[1].kind = "invalid_params"

DocumentTypes == {"pdf", "markdown", "text", "code"}

\* An ingest request with a string path whose doc_type is a string other
\* than the four document types
UnknownDocType(request) ==
    /\ NamedTool(request, "ingest")
    /\ IsString(request.path)
    /\ IsString(request.doc_type)
    /\ request.doc_type[1][2] \notin DocumentTypes

\* C15: an ingest request whose doc_type is none of pdf, markdown, text and
\* code is rejected with an error: the task that serves it is done, its
\* answer is an error, it holds no chunk, and no stored chunk and no graph
\* node comes from it.
C15_UnknownDocTypeIsRejected ==
    \A t \in Tasks :
        (tasks[t].request # None /\ UnknownDocType(tasks[t].request[1])) =>
            /\ tasks[t].pc = "done"
            /\ tasks[t].response[1].kind # "result"
            /\ tasks[t].chunks = <<>>

\* The chunk ids of the batch of task t, and the edges that touch one of them
BatchIds(t) == {tasks[t].chunks[k].id : k \in 1..Len(tasks[t].chunks)}
Touching(list, ids) ==
    Cardinality({i \in 1..Len(list) : list[i].from \in ids \/ list[i].to \in ids})

\* The edges one build_relationships call adds for the batch of task t
BatchEdges(t) ==
    LET order == CHOOSE o \in Orders(SourceFiles(tasks[t].chunks)) : TRUE
    IN  build_relationships(<<>>, <<>>, similarity_threshold, tasks[t].chunks,
                            order, order)[2]

\* Nothing of the batch of task t is in the graph
BatchAbsent(t) ==
    /\ BatchIds(t) \cap DOMAIN nodes = {}
    /\ Touching(edges, BatchIds(t)) = 0

\* All of the batch of task t is in the graph: every chunk node, every
\* chunk's edge to its document, and as many edges as the batch has
BatchComplete(t) ==
    /\ BatchIds(t) \subseteq DOMAIN nodes
    /\ \A k \in 1..Len(tasks[t].chunks) :
          \E i \in 1..Len(edges) :
              /\ edges[i].from = tasks[t].chunks[k].id
              /\ edges[i].to = tasks[t].chunks[k].source_file
    /\ Touching(edges, BatchIds(t)) = Touching(BatchEdges(t), BatchIds(t))

\* The tasks inside build_relationships
Building == {t \in Tasks : tasks[t].pc \in {"add_chunk_nodes", "build_edges"}}

\* C16: at most one task is inside build_relationships at a time, it holds
\* the graph's write lock and no reader holds the lock with it; and while a
\* reader holds the lock, of every batch either nothing or everything is in
\* the graph.
C16_GraphUpdatesAreAtomic ==
    /\ Cardinality(Building) <= 1
    /\ \A t \in Building : graph_lock.writer = Some(t) /\ graph_lock.readers = {}
    /\ graph_lock.readers # {} => \A t \in Tasks : BatchAbsent(t) \/ BatchComplete(t)

\* A reader holds the lock while one batch is in the graph and the task of
\* another batch waits for the write lock
C16_Witness ==
    /\ reader = "reading"
    /\ \E t, u \in Tasks :
          /\ tasks[t].pc = "done" /\ tasks[t].chunks # <<>> /\ BatchComplete(t)
          /\ tasks[u].pc = "graph_write" /\ tasks[u].chunks # <<>> /\ BatchAbsent(u)

\* An ingest request with a string path for which the read of the file, or
\* the extraction of its text when it is taken for a PDF, fails
ReadFails(request) ==
    /\ NamedTool(request, "ingest")
    /\ IsString(request.path)
    /\ LET path == request.path[1][2]
           as_pdf == IF IsString(request.doc_type) THEN request.doc_type[1][2] = "pdf"
                     ELSE Extension(path) = Some(<<"p", "d", "f">>)
       IN  \A f \in Files :
              f.path = path => (IF as_pdf THEN f.pdf = None ELSE f.text = None)

\* C17: when the read of the file or the extraction of its text fails, the
\* ingestion ends in the step the request arrives in: the answer is an
\* internal error whose data is the path, the task holds no chunk, no id is
\* drawn, and storage, nodes and edges stay as they were; and a task that
\* has answered takes no further step (it does not try again).
C17_FailedReadAbortsIngestion ==
    [][\A t \in Tasks :
          /\ (Arrives(t) /\ ReadFails(tasks'[t].request[1])) =>
                /\ tasks'[t].pc = "done"
                /\ tasks'[t].response # None
                /\ tasks'[t].response[1].kind = "internal_error"
                /\ tasks'[t].response[1].data = Some(tasks'[t].request[1].path[1][2])
                /\ tasks'[t].chunks = <<>>
                /\ gr_chunks' = gr_chunks
                /\ storage' = storage
                /\ nodes' = nodes
                /\ edges' = edges
          /\ tasks[t].pc = "done" => tasks'[t] = tasks[t]]_vars

\* The ingestion of a file that cannot be read was aborted, and so was one of
\* a PDF whose text cannot be extracted, after a document had been ingested
C17_Witness ==
    /\ storage # <<>>
    /\ \E t \in Tasks :
          /\ tasks[t].pc = "done"
          /\ tasks[t].request # None
          /\ ReadFails(tasks[t].request[1])
          /\ tasks[t].response[1].kind = "internal_error"
          /\ tasks[t].response[1].data = Some(PathGone)

-----------------------------------------------------------------------------
(* Claims about the header stack of the markdown chunker                   *)

\* The header stack after the events up to e: the one extract_and_chunk
\* records with text that follows them
HeaderStackAfter(events, e) ==
    LET sections == SectionsFrom(Append(SubSeq(events, 1, e), TextEvent(<<"x">>)),
                                 1, <<>>, <<>>, <<>>, FALSE, <<>>, 1)
    IN  sections[Len(sections)][1]

\* The k-th smallest member of a set of numbers
Nth(S, k) == CHOOSE x \in S : Cardinality({y \in S : y <= x}) = k

\* C20: after every heading of a document the header stack has strictly
\* increasing levels from bottom to top, its top is that heading, and it
\* holds, in their order, exactly the headings no later heading of the same
\* or a higher rank has followed.
C20_HeaderStackIsAncestorChain ==
    (ck_call # None /\ ck_call[1].op = "extract_and_chunk") =>
        LET events == ck_call[1].input IN
        \A e \in HeadingEnds(events) :
            LET stack == HeaderStackAfter(events, e)
                kept == InEffect(events, e)
            IN  /\ \A i, j \in 1..Len(stack) : i < j => stack[i].level < stack[j].level
                /\ stack # <<>>
                /\ stack[Len(stack)] = HeadingAt(events, e)
                /\ Len(stack) = Cardinality(kept)
                /\ \A i \in 1..Len(stack) : stack[i] = HeadingAt(events, Nth(kept, i))

\* A third heading removed a deeper one from the stack and joined its parent
C20_Witness ==
    /\ ck_call # None
    /\ ck_call[1].op = "extract_and_chunk"
    /\ \E e \in HeadingEnds(ck_call[1].input) :
          /\ Cardinality({k \in HeadingEnds(ck_call[1].input) : k <= e}) = 3
          /\ Len(HeaderStackAfter(ck_call[1].input, e)) = 2

-----------------------------------------------------------------------------
(* Claims about the boundaries of code and text chunks                     *)

\* How many brackets opened in a text are still open at its end, a closing
\* bracket without an opener closing nothing
RECURSIVE StillOpenFrom(_, _, _)
StillOpenFrom(text, i, open) ==
    IF i > Len(text) THEN open
    ELSE StillOpenFrom(text, i + 1,
            IF text[i] \in {"{", "(", "["} THEN open + 1
            ELSE IF text[i] \in {"}", ")", "]"} /\ open > 0 THEN open - 1
            ELSE open)

\* The text of the first n lines
RECURSIVE FirstLines(_, _)
FirstLines(lines, n) ==
    IF n = 0 THEN <<>> ELSE FirstLines(lines, n - 1) \o lines[n] \o <<"\n">>

\* C21: in chunk_code for rust, a boundary-candidate line that is not the
\* first line and before which no bracket is still open starts a chunk: no
\* chunk holds both that line and the line before it, also when the line
\* itself opens a bracket.
C21_BoundaryLinesStartChunks ==
    (ck_call # None /\ ck_call[1].op = "chunk_code" /\ ck_call[1].language = "rust") =>
        LET lines == Lines(ck_call[1].input)
            chunks == ck_call[1].chunks
        IN  \A i \in 1..(Len(lines) - 1) :
                (/\ is_function_start("rust", TrimStart(lines[i + 1]))
                 /\ StillOpenFrom(FirstLines(lines, i), 1, 0) = 0)
                => \A k \in 1..Len(chunks) :
                      ~(chunks[k].line_start < i /\ i < chunks[k].line_end)

\* C22: of two chunks chunk_text emits one after the other, the later one
\* begins with the last min(overlap_tokens, n) characters of the earlier one
\* (n its length in characters) and starts that many characters before the
\* earlier one ends.
C22_ChunksOverlapTheirPredecessor ==
    (ck_call # None /\ ck_call[1].op = "chunk_text") =>
        LET chunks == ck_call[1].chunks IN
        \A k \in 1..(Len(chunks) - 1) :
            LET earlier == chunks[k].content
                later == chunks[k + 1].content
                n == Len(earlier)
                m == IF overlap_tokens < n THEN overlap_tokens ELSE n
            IN  /\ Len(later) >= m
                /\ SubSeq(later, 1, m) = SubSeq(earlier, n - m + 1, n)
                /\ chunks[k + 1].boundaries[1] = chunks[k].boundaries[2] - m

\* C26: in chunk_code the bracket depth after every line is at least 0: a
\* closing bracket without an opener leaves it at 0.
C26_DepthIsNeverNegative ==
    (ck_call # None /\ ck_call[1].op = "chunk_code") =>
        LET lines == Lines(ck_call[1].input) IN
        \A n \in 1..Len(lines) :
            BraceDepthAfter(FirstLines(lines, n), 1, 0) >= 0

-----------------------------------------------------------------------------
(* Claims about the greedy choice of the diversity reranker                *)

\* The position of a result in the input list, by its chunk id
InputIndex(result) == CHOOSE i \in 1..Len(rr_results) : rr_results[i].chunk_id = result.chunk_id

\* C24: rerank_with_diversity returns a permutation of its input, and the
\* result at every position, the first included, is among the results not
\* placed before it the one with the greatest score * (1 - diversity_factor *
\* mean similarity to the results placed before it), the earliest in the
\* input on ties.
C24_GreedyChoiceAtEveryPosition ==
    rr_out # None =>
        LET out == rr_out[1] IN
        /\ Len(out) = Len(rr_results)
        /\ \A i \in 1..Len(rr_results) : \E p \in 1..Len(out) : out[p] = rr_results[i]
        /\ \A p \in 1..Len(out) :
              LET placed == SubSeq(out, 1, p - 1)
                  adjusted == FinalScore(out[p], placed, rr_factor)
              IN  \A i \in 1..Len(rr_results) :
                      (\A q \in 1..(p - 1) : out[q] # rr_results[i]) =>
                          LET other == FinalScore(rr_results[i], placed, rr_factor)
                          IN  /\ ~RLess(adjusted, other)
                              /\ other = adjusted => InputIndex(out[p]) <= i

-----------------------------------------------------------------------------
(* Claims about the content-hash index of the ChunkStore                   *)

\* C28: after any sequence of ChunkStore store, delete and clear calls every
\* entry of the content-hash index refers to a chunk id present in the chunk
\* database, so that a store call whose content no chunk of the database
\* holds is never answered as a duplicate.
C28_HashIndexRefersToStoredChunks ==
    /\ \A content_hash \in DOMAIN hash_index : ContainsKey(db, hash_index[content_hash])
    /\ (store_call # None /\ store_call[1].op = "ChunkStore::store"
            /\ store_call[1].result = "duplicate")
         => \E stored \in StoredIn(db) : stored.content = store_call[1].chunk.content

-----------------------------------------------------------------------------
(* Claims about the kinds of the nodes that edges join                     *)

NodeTypeOf(id) == IF ContainsKey(nodes, id) THEN Some(nodes[id].node_type) ELSE None

\* C30: after any sequence of build_relationships calls both ends of every
\* edge are keys of the node map; a Similarity or Sequential edge joins two
\* Chunk nodes, a Contains edge goes from a Chunk node to a Word node, and a
\* PartOf edge goes from a Chunk node to a Chapter or Document node; the node
\* whose id is the source file of a Chunk node is a Document node.
C30_EdgesAreWellTyped ==
    /\ \A k \in 1..Len(edges) :
          /\ NodeTypeOf(edges[k].from) = Some("Chunk")
          /\ edges[k].edge_type \in {"Similarity", "Sequential"}
                => NodeTypeOf(edges[k].to) = Some("Chunk")
          /\ edges[k].edge_type = "Contains" => NodeTypeOf(edges[k].to) = Some("Word")
          /\ edges[k].edge_type = "PartOf"
                => NodeTypeOf(edges[k].to) \in {Some("Chapter"), Some("Document")}
    /\ \A id \in DOMAIN nodes :
          nodes[id].node_type = "Chunk"
              => NodeTypeOf(nodes[id].metadata.source_file) = Some("Document")

-----------------------------------------------------------------------------
(* Claims about the order of the steps of process_document                 *)

\* The ingestion of task t ended with a failure of store_chunk
StoreFailed(t) ==
    /\ tasks[t].pc = "done"
    /\ tasks[t].invoked # None
    /\ tasks[t].response = Some(IngestError(StoreFailure, tasks[t].invoked[1].path))

\* The content of every chunk of task t is in the storage
AllStored(t) ==
    \A k \in 1..Len(tasks[t].chunks) :
        \E id \in DOMAIN storage : storage[id].content = tasks[t].chunks[k].content

\* What holds of an ingestion at every moment: its chunks carry their
\* embeddings from before the first store_chunk call on, the graph is only
\* touched once all of them are stored, and after a failure of store_chunk
\* the answer is an error and nothing of the batch is in the graph
StepsInOrder(t) ==
    /\ \A k \in 1..Len(tasks[t].chunks) :
          tasks[t].chunks[k].embedding = embed_text(tasks[t].chunks[k].content)
    /\ tasks[t].pc \in {"graph_write", "add_chunk_nodes", "build_edges"}
          => AllStored(t) /\ tasks[t].response = None
    /\ ~BatchAbsent(t) => AllStored(t)
    /\ StoreFailed(t) => BatchAbsent(t) /\ tasks[t].response[1].kind = "internal_error"

\* C25: process_document chunks, embeds, stores every chunk and only then
\* builds the graph: every stored chunk has its embedding, and when
\* store_chunk fails for a chunk the answer is an error, build_relationships
\* is not called (nodes and edges stay as they are) and the chunks stored
\* before the failure stay in the storage.
C25_StoreFailureStopsIngestion ==
    [][/\ \A t \in Tasks : StepsInOrder(t)'
       /\ \A id \in DOMAIN storage' : storage'[id].embedding # <<>>
       /\ \A id \in DOMAIN storage : ContainsKey(storage', id) /\ storage'[id] = storage[id]
       /\ \A t \in Tasks :
             (tasks[t].pc = "storing" /\ StoreFailed(t)') =>
                 /\ nodes' = nodes /\ edges' = edges
                 /\ \E failing \in 1..Len(tasks[t].chunks) :
                       \A k \in 1..(failing - 1) :
                           \E id \in DOMAIN storage' :
                               storage'[id].content = tasks[t].chunks[k].content]_vars

\* An ingestion that failed at its second chunk after the first was stored:
\* the first chunk is in the storage and nothing of the batch is in the
\* graph, which holds the batch of another document
C25_Witness ==
    /\ edges # <<>>
    /\ \E t \in Tasks :
          /\ StoreFailed(t)
          /\ Len(tasks[t].chunks) >= 2
          /\ ContainsKey(storage, tasks[t].chunks[1].id)
          /\ ~ContainsKey(storage, tasks[t].chunks[2].id)
          /\ BatchAbsent(t)

-----------------------------------------------------------------------------
(* Claims about search_chunks and the chapter groups of search_chapters     *)

\* The call was a search_chapters call none of whose chunk results has a
\* chapter or a section
NoChapterFound ==
    /\ sr_call # None
    /\ sr_call[1].op = "search_chapters"
    /\ \A i \in 1..Len(sr_call[1].chunk_results) :
          ChapterName(sr_call[1].chunk_results[i].metadata) = None

\* C23: when no chunk result has a chapter and none has a section, every
\* group search_chapters returns has the chapter "Unknown Section" and the
\* file that is the source_file of each of its chunks.
C23_FallbackGroupsAreUnknownSections ==
    NoChapterFound =>
        \A g \in 1..Len(sr_call[1].results) :
            /\ sr_call[1].results[g].chapter = StrUnknownSection
            /\ \A k \in 1..Len(sr_call[1].results[g].chunks) :
                  Some(sr_call[1].results[g].file)
                      = sr_call[1].results[g].chunks[k].metadata.source_file

\* C27: search_chunks(query, top_k) returns at most top_k results in which
\* no chunk id occurs twice, also when the vector search found fewer than
\* top_k results and the results of the text search were appended.
C27_ResultsAreDistinctAndAtMostTopK ==
    (sr_call # None /\ sr_call[1].op = "search_chunks") =>
        /\ Len(sr_call[1].results) <= sr_call[1].top_k
        /\ \A i, j \in 1..Len(sr_call[1].results) :
              sr_call[1].results[i].chunk_id = sr_call[1].results[j].chunk_id => i = j

\* C29: for every group search_chapters returns from results that have a
\* chapter or a section, file is the source_file and chapter is the chapter,
\* or else the section, of each of its chunks, whatever characters they
\* hold, '#' included; so the chunks of a group agree on both.
C29_GroupsReportTheirChunksFileAndChapter ==
    (sr_call # None /\ sr_call[1].op = "search_chapters" /\ ~NoChapterFound) =>
        \A g \in 1..Len(sr_call[1].results) :
            \A k \in 1..Len(sr_call[1].results[g].chunks) :
                /\ Some(sr_call[1].results[g].file)
                      = sr_call[1].results[g].chunks[k].metadata.source_file
                /\ Some(sr_call[1].results[g].chapter)
                      = ChapterName(sr_call[1].results[g].chunks[k].metadata)

====
